---- MODULE Spec2Model ----
(***************************************************************************)
(* Model-call orchestration layer of services/geminiService.ts             *)
(* (src/unnamed/part_000): withRetry, trackUsage and                       *)
(* researchLegalPrecedent.                                                 *)
(*                                                                         *)
(* Strings are sequences of one-character strings, so that                 *)
(* String.prototype.includes and trim are computed, not assumed.           *)
(* An optional value (undefined / absent property) is the empty set, a     *)
(* present value v is {v}.                                                 *)
(***************************************************************************)
EXTENDS Integers, Sequences, FiniteSets, TLC

\* ------------------------------------------------------------------------
\* Bounds of the exploration
\* ------------------------------------------------------------------------
\* largest maxRetries argument explored for a single withRetry invocation
MaxRetriesBound == 4
\* largest number of chat sends explored in one Assistant session
MaxSends == 2
\* the largest number of usage records of one behaviour of SpecUsage
MaxRecords == 3

\* ------------------------------------------------------------------------
\* Program constants
\* ------------------------------------------------------------------------
\* default of the maxRetries parameter
DefaultMaxRetries == 4
\* largest number of characters of a file content put into a prompt
MaxContentChars == 14000
\* default of the baseDelayMs parameter
DefaultBaseDelayMs == 1800
\* exclusive upper bound of the jitter, Math.random() * 400
JitterRangeMs == 400

\* ------------------------------------------------------------------------
\* Optional values
\* ------------------------------------------------------------------------
None == {}
Some(v) == {v}
The(o) == CHOOSE v \in o : TRUE
\* a ?? b
Coalesce(a, b) == IF a # None THEN a ELSE b

\* ------------------------------------------------------------------------
\* Strings
\* ------------------------------------------------------------------------
\* "quota"
quota ==
  <<"q", "u", "o", "t", "a">>
\* "RESOURCE_EXHAUSTED"
RESOURCE_EXHAUSTED ==
  <<"R", "E", "S", "O", "U", "R", "C", "E", "_", "E", "X", "H", "A", "U", "S", "T", "E", "D">>
\* "rate limit"
rate_limit ==
  <<"r", "a", "t", "e", " ", "l", "i", "m", "i", "t">>
\* "All retry attempts failed"
AllRetryAttemptsFailed ==
  <<"A", "l", "l", " ", "r", "e", "t", "r", "y", " ", "a", "t", "t", "e", "m", "p", "t", "s", " ", "f", "a", "i", "l", "e", "d">>

\* "Untitled source"
UntitledSource ==
  <<"U", "n", "t", "i", "t", "l", "e", "d", " ", "s", "o", "u", "r", "c", "e">>
\* "# Indiana Civil Legal Research Report (Grounded with Google Search)"
ReportTitle ==
  <<"#", " ", "I", "n", "d", "i", "a", "n", "a", " ", "C", "i", "v", "i", "l", " ", "L", "e", "g", "a", "l", " ", "R", "e", "s", "e", "a", "r", "c", "h", " ", "R", "e", "p", "o", "r", "t", " ", "(", "G", "r", "o", "u", "n", "d", "e", "d", " ", "w", "i", "t", "h", " ", "G", "o", "o", "g", "l", "e", " ", "S", "e", "a", "r", "c", "h", ")">>
\* "## Civil Case Law Analysis"
CaseLawHeading ==
  <<"#", "#", " ", "C", "i", "v", "i", "l", " ", "C", "a", "s", "e", " ", "L", "a", "w", " ", "A", "n", "a", "l", "y", "s", "i", "s">>
\* "(no case law summary returned)"
NoCaseLaw ==
  <<"(", "n", "o", " ", "c", "a", "s", "e", " ", "l", "a", "w", " ", "s", "u", "m", "m", "a", "r", "y", " ", "r", "e", "t", "u", "r", "n", "e", "d", ")">>
\* "## Relevant Statutes & Trial Rules"
StatutesHeading ==
  <<"#", "#", " ", "R", "e", "l", "e", "v", "a", "n", "t", " ", "S", "t", "a", "t", "u", "t", "e", "s", " ", "&", " ", "T", "r", "i", "a", "l", " ", "R", "u", "l", "e", "s">>
\* "(no statutes returned)"
NoStatutes ==
  <<"(", "n", "o", " ", "s", "t", "a", "t", "u", "t", "e", "s", " ", "r", "e", "t", "u", "r", "n", "e", "d", ")">>
\* "**Sources ("
SourcesPrefix ==
  <<"*", "*", "S", "o", "u", "r", "c", "e", "s", " ", "(">>
\* ")**: see below"
SourcesSuffix ==
  <<")", "*", "*", ":", " ", "s", "e", "e", " ", "b", "e", "l", "o", "w">>
\* "Failed to complete grounded legal research. The search engine or model
\* may be temporarily unavailable."
ResearchFailedMessage ==
  <<"F", "a", "i", "l", "e", "d", " ", "t", "o", " ", "c", "o", "m", "p", "l", "e", "t", "e", " ", "g", "r", "o", "u", "n", "d", "e", "d", " ", "l", "e", "g", "a", "l", " ", "r", "e", "s", "e", "a", "r", "c", "h", ".", " ", "T", "h", "e", " ", "s", "e", "a", "r", "c", "h", " ", "e", "n", "g", "i", "n", "e", " ", "o", "r", " ", "m", "o", "d", "e", "l", " ", "m", "a", "y", " ", "b", "e", " ", "t", "e", "m", "p", "o", "r", "a", "r", "i", "l", "y", " ", "u", "n", "a", "v", "a", "i", "l", "a", "b", "l", "e", ".">>

\* "Hello. I am HoosierLaw, your expert family law assistant. I can help
\* you understand Indiana statutes, analyze your case files, or plan your
\* legal strategy. How can I help you today?"
Greeting ==
  <<"H", "e", "l", "l", "o", ".", " ", "I", " ", "a", "m", " ", "H", "o", "o", "s", "i", "e", "r", "L", "a", "w", ",", " ", "y", "o", "u", "r", " ", "e", "x", "p", "e", "r", "t", " ", "f", "a", "m", "i", "l", "y", " ", "l", "a", "w", " ", "a", "s", "s", "i", "s", "t", "a", "n", "t", ".", " ", "I", " ", "c", "a", "n", " ", "h", "e", "l", "p", " ", "y", "o", "u", " ", "u", "n", "d", "e", "r", "s", "t", "a", "n", "d", " ", "I", "n", "d", "i", "a", "n", "a", " ", "s", "t", "a", "t", "u", "t", "e", "s", ",", " ", "a", "n", "a", "l", "y", "z", "e", " ", "y", "o", "u", "r", " ", "c", "a", "s", "e", " ", "f", "i", "l", "e", "s", ",", " ", "o", "r", " ", "p", "l", "a", "n", " ", "y", "o", "u", "r", " ", "l", "e", "g", "a", "l", " ", "s", "t", "r", "a", "t", "e", "g", "y", ".", " ", "H", "o", "w", " ", "c", "a", "n", " ", "I", " ", "h", "e", "l", "p", " ", "y", "o", "u", " ", "t", "o", "d", "a", "y", "?">>
\* "I encountered an error. Please try again."
Apology ==
  <<"I", " ", "e", "n", "c", "o", "u", "n", "t", "e", "r", "e", "d", " ", "a", "n", " ", "e", "r", "r", "o", "r", ".", " ", "P", "l", "e", "a", "s", "e", " ", "t", "r", "y", " ", "a", "g", "a", "i", "n", ".">>
\* "No response received."
NoResponseReceived ==
  <<"N", "o", " ", "r", "e", "s", "p", "o", "n", "s", "e", " ", "r", "e", "c", "e", "i", "v", "e", "d", ".">>
\* "CASE DATA (do NOT repeat unless asked):\n"
CaseDataPrefix ==
  <<"C", "A", "S", "E", " ", "D", "A", "T", "A", " ", "(", "d", "o", " ", "N", "O", "T", " ", "r", "e", "p", "e", "a", "t", " ", "u", "n", "l", "e", "s", "s", " ", "a", "s", "k", "e", "d", ")", ":", "\n">>
\* "\n\nUSER: "
UserPrefix ==
  <<"\n", "\n", "U", "S", "E", "R", ":", " ">>
\* "\n\n<CASE_FILES>\n"
CaseFilesOpen ==
  <<"\n", "\n", "<", "C", "A", "S", "E", "_", "F", "I", "L", "E", "S", ">", "\n">>
\* "\n</CASE_FILES>\n"
CaseFilesClose ==
  <<"\n", "<", "/", "C", "A", "S", "E", "_", "F", "I", "L", "E", "S", ">", "\n">>
\* "--- FILE: "
FileOpen ==
  <<"-", "-", "-", " ", "F", "I", "L", "E", ":", " ">>
\* " ("
FileLengthOpen ==
  <<" ", "(">>
\* " chars) ---\n"
FileLengthClose ==
  <<" ", "c", "h", "a", "r", "s", ")", " ", "-", "-", "-", "\n">>
\* "\n--- END ---"
FileEnd ==
  <<"\n", "-", "-", "-", " ", "E", "N", "D", " ", "-", "-", "-">>
\* "\n\n"
BlankLine ==
  <<"\n", "\n">>

\* str.includes(search)
includes(str, search) ==
  \E i \in 0..(Len(str) - Len(search)) :
      SubSeq(str, i + 1, i + Len(search)) = search

\* ------------------------------------------------------------------------
\* Errors raised by the model API: { status?, code?, message? }
\* ------------------------------------------------------------------------
\* "quota exceeded"
MsgQuotaExceeded ==
  <<"q", "u", "o", "t", "a", " ", "e", "x", "c", "e", "e", "d", "e", "d">>
\* "Quota exceeded"
MsgQuotaCapital ==
  <<"Q", "u", "o", "t", "a", " ", "e", "x", "c", "e", "e", "d", "e", "d">>
\* "rate limited"
MsgRateLimited ==
  <<"r", "a", "t", "e", " ", "l", "i", "m", "i", "t", "e", "d">>
\* "Rate limit"
MsgRateLimitCapital ==
  <<"R", "a", "t", "e", " ", "l", "i", "m", "i", "t">>
\* "Bad Request"
MsgBadRequest ==
  <<"B", "a", "d", " ", "R", "e", "q", "u", "e", "s", "t">>

Statuses == {None, Some(429), Some(503), Some(500)}
Codes == {None, Some(429), Some(503)}
Messages ==
  {None, Some(MsgQuotaExceeded), Some(MsgQuotaCapital), Some(RESOURCE_EXHAUSTED),
   Some(MsgRateLimited), Some(MsgRateLimitCapital), Some(MsgBadRequest)}

\* every error shape explored for one withRetry invocation
ErrorShapes == [status : Statuses, code : Codes, message : Messages]

\* Math.random() * 400, sampled at both ends of [0, 400)
Jitters == {0, JitterRangeMs - 1}

\* ------------------------------------------------------------------------
\* Responses of the model API (GenerateContentResponse):
\*   { text?, usageMetadata?: { totalTokenCount?, promptTokenCount?,
\*     candidatesTokenCount? }, groundingChunks?: [{ web?: { uri?, title? } }] }
\* ------------------------------------------------------------------------
Usage(total, prompt, candidates) ==
  [totalTokenCount |-> total, promptTokenCount |-> prompt,
   candidatesTokenCount |-> candidates]
Web(uri, title) == [web |-> Some([uri |-> uri, title |-> title])]

\* " A1 ", sources u1 "X" and a reference without URI, 7 tokens in total
RespA ==
  [text |-> Some(<<" ", "A", "1", " ">>),
   usageMetadata |-> Some(Usage(Some(7), Some(3), Some(4))),
   groundingChunks |-> Some(<<Web(Some(<<"u", "1">>), Some(<<"X">>)),
                              Web(None, Some(<<"N">>))>>)]
\* "B1", sources u2 (untitled) and u1 "Y", only a prompt token count
RespB ==
  [text |-> Some(<<"B", "1">>),
   usageMetadata |-> Some(Usage(None, Some(5), None)),
   groundingChunks |-> Some(<<Web(Some(<<"u", "2">>), None),
                              Web(Some(<<"u", "1">>), Some(<<"Y">>))>>)]
\* whitespace-only text, no usage, no grounding
RespBlank ==
  [text |-> Some(<<" ", " ">>),
   usageMetadata |-> None,
   groundingChunks |-> None]

\* no text, a zero total next to a prompt count, references with an empty
\* URI, without web part, and twice the same URI u3 with titles "Z" and "W"
RespC ==
  [text |-> None,
   usageMetadata |-> Some(Usage(Some(0), Some(5), None)),
   groundingChunks |-> Some(<<Web(Some(<<>>), Some(<<"E">>)),
                              [web |-> None],
                              Web(Some(<<"u", "3">>), Some(<<"Z">>)),
                              Web(Some(<<"u", "3">>), Some(<<"W">>))>>)]

Responses == {RespA, RespB, RespBlank, RespC}

\* ------------------------------------------------------------------------
\* State
\* ------------------------------------------------------------------------
\* the withRetry invocations: the case-law chain and the statute chain of a
\* research call; a single invocation uses chain 1
Chains == {1, 2}

VARIABLES
  pc,           \* per invocation: where withRetry is suspended
  maxRetries,   \* per invocation: the maxRetries argument
  hasFallback,  \* per invocation: whether fallbackOperation was supplied
  attempt,      \* per invocation: the loop variable
  lastError,    \* per invocation: optional error
  delay,        \* per invocation: the delay of the latest backoff
  returned,     \* per invocation: optional value the promise resolved with
  thrown,       \* per invocation: optional error the promise rejected with
  inFlight,     \* per invocation: pending operation / fallback / timer
  trace,        \* per invocation: what the invocation has done so far
  tokenListener,  \* GeminiService.tokenListener: optional listener
  totalTokens,    \* App state the registered listener adds to
  usageLog,       \* what trackUsage and the listeners have been called with
  research,       \* where researchLegalPrecedent is: idle, awaiting, returned, failed
  report,         \* optional { text, sources } researchLegalPrecedent returned
  researchError,  \* optional error researchLegalPrecedent threw
  settleOrder,    \* the invocations of the research call, in the order they settled
  files,          \* App state: the case files handed to the views
  messages,       \* Assistant state: the transcript, turns { role, text }
  input,          \* Assistant state: the text in the input field
  thinking,       \* Assistant state: a chat call is pending
  chatCall,       \* optional { message, history, fullMessage } of the latest send
  chatResponse,   \* optional response of the latest successful chat model call
  draftLoading,   \* MotionDrafter state: a drafting call is pending
  draft,          \* MotionDrafter state: the text of the draft
  draftCall,      \* optional { topic, userInstructions, prompt } of the latest draft
  draftsStarted,  \* number of drafting calls made so far
  formatted,      \* optional string the latest formatCaseFiles call returned
  loading,        \* ResearchTool state: a research is shown as pending
  result,         \* ResearchTool state: optional { text, sources } shown
  calls,          \* per handleResearch call: its state and what it delivered
  uploads,        \* per handleFileChange call: its state and the onUpload it holds
  clock,          \* Date.now()
  storeLog        \* the files whose upload completed, the ids deleted

retryVars ==
  <<pc, maxRetries, hasFallback, attempt, lastError, delay, returned, thrown,
    inFlight, trace>>

usageVars == <<tokenListener, totalTokens, usageLog>>

researchVars == <<research, report, researchError>>

chatVars == <<files, messages, input, thinking, chatCall, chatResponse>>

draftVars == <<draftLoading, draft, draftCall, draftsStarted>>

formatVars == <<formatted>>

toolVars == <<loading, result, calls>>

storeVars == <<uploads, clock, storeLog>>

viewVars == <<formatVars, toolVars, storeVars>>

vars == <<retryVars, usageVars, researchVars, settleOrder, chatVars, draftVars, viewVars>>

\* the listeners that can be registered: the one of App, and another one
Listeners == {"App", "Other"}

EmptyUsageLog ==
  [records |-> 0, last |-> None, requested |-> None,
   calls |-> [l \in Listeners |-> 0], sum |-> [l \in Listeners |-> 0]]

\* the handleResearch calls of one ResearchTool that are followed
ViewCalls == {1, 2}
NoCall == [state |-> "none", report |-> None, error |-> None, shown |-> "none"]

\* the largest number of uploads of one behaviour
MaxUploads == 2
Uploads == 1..MaxUploads
NoUpload == [state |-> "none", onUpload |-> <<>>]

EmptyTrace ==
  [primary |-> 0, fallback |-> 0, sleeps |-> 0, history |-> <<>>,
   primaryValue |-> None, primaryError |-> None, fallbackError |-> None]

\* ------------------------------------------------------------------------
\* withRetry (part_000 lines 50-93)
\* ------------------------------------------------------------------------
\* const status = err?.status ?? err?.code
status(err) == Coalesce(err.status, err.code)

\* err?.message?.includes(search)
messageIncludes(err, search) ==
  err.message # None /\ includes(The(err.message), search)

\* variant: a 503 status is not treated as retryable
isRetryable_no503(err) ==
  \/ status(err) = Some(429)
  \/ messageIncludes(err, quota)
  \/ messageIncludes(err, RESOURCE_EXHAUSTED)
  \/ messageIncludes(err, rate_limit)

isRetryable(err) ==
  \/ status(err) = Some(429)
  \/ status(err) = Some(503)
  \/ messageIncludes(err, quota)
  \/ messageIncludes(err, RESOURCE_EXHAUSTED)
  \/ messageIncludes(err, rate_limit)

\* variant: the loop gives up one attempt early
breakLoop_early(err, a, mr) == ~isRetryable(err) \/ a + 1 >= mr

\* variant: the classification is ignored, every failure is retried
breakLoop_anyError(err, a, mr) == a = mr

\* variant: the last attempt is followed by a backoff like the others
breakLoop_sleepAfterLast(err, a, mr) == ~isRetryable(err)

\* if (!isRetryable || attempt === maxRetries) break
breakLoop(err, a, mr) == ~isRetryable(err) \/ a = mr

\* variant: linear instead of exponential backoff
backoffDelay_linear(baseDelayMs, a, jitter) == baseDelayMs * (a + 1) + jitter

\* baseDelayMs * Math.pow(2, attempt) + Math.random() * 400
backoffDelay(baseDelayMs, a, jitter) == baseDelayMs * (2 ^ a) + jitter

\* variant: only the first error is remembered
assignLastError_first(previous, err) ==
  IF previous = None THEN Some(err) ELSE previous

\* lastError = err
assignLastError(previous, err) == Some(err)

GenericError ==
  [status |-> None, code |-> None, message |-> Some(AllRetryAttemptsFailed)]

\* variant: the generic error is thrown whatever lastError is
thrownError_generic(le) == GenericError

\* throw lastError ?? new Error("All retry attempts failed")
thrownError(le) == The(Coalesce(le, Some(GenericError)))

\* The classification the specification gives: transient iff the status
\* (the code when the status is absent) is 429 or 503, or the message
\* carries one of the three markers.  Used to label the trace only.
Transient(err) ==
  LET st == IF err.status = None THEN err.code ELSE err.status
      marked(m) == err.message # None /\ includes(The(err.message), m)
  IN  \/ st \in {Some(429), Some(503)}
      \/ marked(quota) \/ marked(RESOURCE_EXHAUSTED) \/ marked(rate_limit)

Label(err) == IF Transient(err) THEN "retryable" ELSE "permanent"

\* operation() is called and awaited (line 60)
callOperation(c, tr) ==
  /\ pc' = [pc EXCEPT ![c] = "operation"]
  /\ inFlight' = [inFlight EXCEPT ![c] = (@ \ {"timer"}) \cup {"operation"}]
  /\ trace' = [trace EXCEPT ![c] = [tr EXCEPT !.primary = @ + 1]]
  /\ UNCHANGED <<returned, thrown>>

\* the code after the loop (lines 83-92), with lastError = le; settled is
\* the awaited promise that has just settled
afterLoop(c, le, tr, settled) ==
  IF hasFallback[c]
  THEN /\ pc' = [pc EXCEPT ![c] = "fallback"]
       /\ inFlight' = [inFlight EXCEPT ![c] = (@ \ {settled}) \cup {"fallback"}]
       /\ trace' = [trace EXCEPT ![c] = [tr EXCEPT !.fallback = @ + 1]]
       /\ UNCHANGED <<returned, thrown>>
  ELSE /\ pc' = [pc EXCEPT ![c] = "rejected"]
       /\ inFlight' = [inFlight EXCEPT ![c] = @ \ {settled}]
       /\ thrown' = [thrown EXCEPT ![c] = Some(thrownError(le))]
       /\ trace' = [trace EXCEPT ![c] = tr]
       /\ UNCHANGED returned

\* the loop test attempt <= maxRetries followed by the loop body or the exit
loopTest(c, a, le, tr, settled) ==
  IF a <= maxRetries[c]
  THEN callOperation(c, tr)
  ELSE afterLoop(c, le, tr, settled)

\* withRetry(operation, fallbackOperation, mr) is called: it runs up to its
\* first await
withRetry(c, fallbackOperation, mr) ==
  /\ pc[c] = "idle"
  /\ maxRetries' = [maxRetries EXCEPT ![c] = mr]
  /\ hasFallback' = [hasFallback EXCEPT ![c] = fallbackOperation]
  /\ attempt' = [attempt EXCEPT ![c] = 0]
  /\ lastError' = [lastError EXCEPT ![c] = None]
  /\ pc' = [pc EXCEPT ![c] = "operation"]
  /\ inFlight' = [inFlight EXCEPT ![c] = {"operation"}]
  /\ trace' = [trace EXCEPT ![c] = [EmptyTrace EXCEPT !.primary = 1]]
  /\ UNCHANGED <<delay, returned, thrown>>

\* variant: a successful attempt leaves the loop instead of returning
operationFulfilled_break(c, r) ==
  /\ pc[c] = "operation"
  /\ "operation" \in inFlight[c]
  /\ afterLoop(c, lastError[c],
               [trace[c] EXCEPT !.history = Append(@, "ok"),
                                !.primaryValue = Some(r)],
               "operation")
  /\ UNCHANGED <<maxRetries, hasFallback, attempt, lastError, delay>>

\* the awaited operation() resolves with r: return (line 60)
operationFulfilled(c, r) ==
  /\ pc[c] = "operation"
  /\ "operation" \in inFlight[c]
  /\ pc' = [pc EXCEPT ![c] = "fulfilled"]
  /\ inFlight' = [inFlight EXCEPT ![c] = @ \ {"operation"}]
  /\ returned' = [returned EXCEPT ![c] = Some(r)]
  /\ trace' = [trace EXCEPT ![c] =
                 [@ EXCEPT !.history = Append(@, "ok"), !.primaryValue = Some(r)]]
  /\ UNCHANGED <<maxRetries, hasFallback, attempt, lastError, delay, thrown>>

\* variant: the backoff promise is awaited but its timer is never set
operationRejected_noTimer(c, err, jitter) ==
  /\ pc[c] = "operation"
  /\ "operation" \in inFlight[c]
  /\ LET le == assignLastError(lastError[c], err)
         tr == [trace[c] EXCEPT !.history = Append(@, Label(err)),
                                !.primaryError = Some(err)]
     IN  /\ lastError' = [lastError EXCEPT ![c] = le]
         /\ IF breakLoop(err, attempt[c], maxRetries[c])
            THEN /\ afterLoop(c, le, tr, "operation")
                 /\ UNCHANGED delay
            ELSE /\ delay' = [delay EXCEPT ![c] =
                                backoffDelay(DefaultBaseDelayMs, attempt[c], jitter)]
                 /\ pc' = [pc EXCEPT ![c] = "sleep"]
                 /\ inFlight' = [inFlight EXCEPT ![c] = @ \ {"operation"}]
                 /\ trace' = [trace EXCEPT ![c] = [tr EXCEPT !.sleeps = @ + 1]]
                 /\ UNCHANGED <<returned, thrown>>
  /\ UNCHANGED <<maxRetries, hasFallback, attempt>>

\* variant: the backoff promise is not awaited, the next attempt starts at once
operationRejected_noAwait(c, err, jitter) ==
  /\ pc[c] = "operation"
  /\ "operation" \in inFlight[c]
  /\ LET le == assignLastError(lastError[c], err)
         tr == [trace[c] EXCEPT !.history = Append(@, Label(err)),
                                !.primaryError = Some(err)]
     IN  /\ lastError' = [lastError EXCEPT ![c] = le]
         /\ IF breakLoop(err, attempt[c], maxRetries[c])
            THEN /\ afterLoop(c, le, tr, "operation")
                 /\ UNCHANGED <<delay, attempt>>
            ELSE /\ delay' = [delay EXCEPT ![c] =
                                backoffDelay(DefaultBaseDelayMs, attempt[c], jitter)]
                 /\ attempt' = [attempt EXCEPT ![c] = @ + 1]
                 /\ pc' = [pc EXCEPT ![c] = "operation"]
                 /\ inFlight' = [inFlight EXCEPT ![c] = {"timer", "operation"}]
                 /\ trace' = [trace EXCEPT ![c] =
                                [tr EXCEPT !.sleeps = @ + 1, !.primary = @ + 1]]
                 /\ UNCHANGED <<returned, thrown>>
  /\ UNCHANGED <<maxRetries, hasFallback>>

\* the awaited operation() rejects with err: the catch block (lines 61-80)
operationRejected(c, err, jitter) ==
  /\ pc[c] = "operation"
  /\ "operation" \in inFlight[c]
  /\ LET le == assignLastError(lastError[c], err)
         tr == [trace[c] EXCEPT !.history = Append(@, Label(err)),
                                !.primaryError = Some(err)]
     IN  /\ lastError' = [lastError EXCEPT ![c] = le]
         /\ IF breakLoop(err, attempt[c], maxRetries[c])
            THEN /\ afterLoop(c, le, tr, "operation")
                 /\ UNCHANGED delay
            ELSE /\ delay' = [delay EXCEPT ![c] =
                                backoffDelay(DefaultBaseDelayMs, attempt[c], jitter)]
                 /\ pc' = [pc EXCEPT ![c] = "sleep"]
                 /\ inFlight' = [inFlight EXCEPT ![c] =
                                   (@ \ {"operation"}) \cup {"timer"}]
                 /\ trace' = [trace EXCEPT ![c] = [tr EXCEPT !.sleeps = @ + 1]]
                 /\ UNCHANGED <<returned, thrown>>
  /\ UNCHANGED <<maxRetries, hasFallback, attempt>>

\* variant: the loop variable is not incremented between attempts
timerFired_noIncrement(c) ==
  /\ pc[c] = "sleep"
  /\ "timer" \in inFlight[c]
  /\ loopTest(c, attempt[c], lastError[c], trace[c], "timer")
  /\ UNCHANGED <<maxRetries, hasFallback, attempt, lastError, delay>>

\* variant: the loop variable is shared by all invocations
timerFired_sharedAttempt(c) ==
  /\ pc[c] = "sleep"
  /\ "timer" \in inFlight[c]
  /\ attempt' = [d \in Chains |-> attempt[c] + 1]
  /\ loopTest(c, attempt[c] + 1, lastError[c], trace[c], "timer")
  /\ UNCHANGED <<maxRetries, hasFallback, lastError, delay>>

\* the backoff timer fires (line 79): attempt++ and the next iteration
timerFired(c) ==
  /\ pc[c] = "sleep"
  /\ "timer" \in inFlight[c]
  /\ attempt' = [attempt EXCEPT ![c] = @ + 1]
  /\ loopTest(c, attempt[c] + 1, lastError[c], trace[c], "timer")
  /\ UNCHANGED <<maxRetries, hasFallback, lastError, delay>>

\* the awaited fallbackOperation() resolves with r: return (line 86)
fallbackFulfilled(c, r) ==
  /\ pc[c] = "fallback"
  /\ "fallback" \in inFlight[c]
  /\ pc' = [pc EXCEPT ![c] = "fulfilled"]
  /\ inFlight' = [inFlight EXCEPT ![c] = @ \ {"fallback"}]
  /\ returned' = [returned EXCEPT ![c] = Some(r)]
  /\ UNCHANGED <<maxRetries, hasFallback, attempt, lastError, delay, thrown, trace>>

\* the awaited fallbackOperation() rejects with err: the error is logged and
\* lastError is thrown (lines 87-92)
fallbackRejected(c, err) ==
  /\ pc[c] = "fallback"
  /\ "fallback" \in inFlight[c]
  /\ pc' = [pc EXCEPT ![c] = "rejected"]
  /\ inFlight' = [inFlight EXCEPT ![c] = @ \ {"fallback"}]
  /\ thrown' = [thrown EXCEPT ![c] = Some(thrownError(lastError[c]))]
  /\ trace' = [trace EXCEPT ![c] = [@ EXCEPT !.fallbackError = Some(err)]]
  /\ UNCHANGED <<maxRetries, hasFallback, attempt, lastError, delay, returned>>

\* ------------------------------------------------------------------------
\* One withRetry invocation with arbitrary arguments and outcomes
\* ------------------------------------------------------------------------
InitChains ==
  /\ pc = [c \in Chains |-> "idle"]
  /\ maxRetries = [c \in Chains |-> DefaultMaxRetries]
  /\ hasFallback = [c \in Chains |-> FALSE]
  /\ attempt = [c \in Chains |-> 0]
  /\ lastError = [c \in Chains |-> None]
  /\ delay = [c \in Chains |-> 0]
  /\ returned = [c \in Chains |-> None]
  /\ thrown = [c \in Chains |-> None]
  /\ inFlight = [c \in Chains |-> {}]
  /\ trace = [c \in Chains |-> EmptyTrace]

InitApp ==
  /\ tokenListener = None
  /\ totalTokens = 0
  /\ usageLog = EmptyUsageLog
  /\ research = "idle"
  /\ report = None
  /\ researchError = None
  /\ settleOrder = <<>>
  /\ messages = <<[role |-> "model", text |-> Greeting]>>
  /\ input = <<>>
  /\ thinking = FALSE
  /\ chatCall = None
  /\ chatResponse = None
  /\ draftLoading = FALSE
  /\ draft = <<>>
  /\ draftCall = None
  /\ draftsStarted = 0
  /\ formatted = None
  /\ loading = FALSE
  /\ result = None
  /\ calls = [k \in ViewCalls |-> NoCall]
  /\ uploads = [u \in Uploads |-> NoUpload]
  /\ clock = 1
  /\ storeLog = [completed |-> {}, deleted |-> {}]

InitRetry == InitChains /\ InitApp /\ files = <<>>

Invoke ==
  \E fb \in BOOLEAN, mr \in 0..MaxRetriesBound :
    withRetry(1, fb, mr) /\ UNCHANGED <<usageVars, researchVars, settleOrder, chatVars, draftVars, viewVars>>
PrimaryResolves ==
  \E r \in Responses :
    operationFulfilled(1, r) /\ UNCHANGED <<usageVars, researchVars, settleOrder, chatVars, draftVars, viewVars>>
PrimaryRejects ==
  \E err \in ErrorShapes, j \in Jitters :
    operationRejected(1, err, j) /\ UNCHANGED <<usageVars, researchVars, settleOrder, chatVars, draftVars, viewVars>>
BackoffElapses ==
  timerFired(1) /\ UNCHANGED <<usageVars, researchVars, settleOrder, chatVars, draftVars, viewVars>>
FallbackResolves ==
  \E r \in Responses :
    fallbackFulfilled(1, r) /\ UNCHANGED <<usageVars, researchVars, settleOrder, chatVars, draftVars, viewVars>>
FallbackRejects ==
  \E err \in ErrorShapes :
    fallbackRejected(1, err) /\ UNCHANGED <<usageVars, researchVars, settleOrder, chatVars, draftVars, viewVars>>

NextRetry ==
  \/ Invoke
  \/ PrimaryResolves
  \/ PrimaryRejects
  \/ BackoffElapses
  \/ FallbackResolves
  \/ FallbackRejects

SpecRetry == InitRetry /\ [][NextRetry]_vars

\* ------------------------------------------------------------------------
\* trackUsage and setTokenListener (part_000 lines 22-35)
\* ------------------------------------------------------------------------
\* response.usageMetadata?.<field>
usageField(response, field) ==
  IF response.usageMetadata = None THEN None
  ELSE The(response.usageMetadata)[field]

\* variant: a count of zero is passed over like a missing one
usageTotal_firstPositive(response) ==
  LET positive(o) == IF o # None /\ The(o) > 0 THEN o ELSE None
  IN  The(Coalesce(positive(usageField(response, "totalTokenCount")),
          Coalesce(positive(usageField(response, "promptTokenCount")),
          Coalesce(positive(usageField(response, "candidatesTokenCount")),
                   Some(0)))))

\* totalTokenCount ?? promptTokenCount ?? candidatesTokenCount ?? 0
usageTotal(response) ==
  The(Coalesce(usageField(response, "totalTokenCount"),
      Coalesce(usageField(response, "promptTokenCount"),
      Coalesce(usageField(response, "candidatesTokenCount"), Some(0)))))

\* variant: the count replaces the total
appListener_overwrite(count) == totalTokens' = count

\* the listener App registers: setTotalTokens(prev => prev + count)
appListener(count) == totalTokens' = totalTokens + count

\* this.tokenListener(total): the listener of App adds the count to its
\* state, another listener leaves App alone; log is the usage log the call
\* is noted in
callListener(listener, count, log) ==
  /\ IF listener = "App" THEN appListener(count) ELSE UNCHANGED totalTokens
  /\ usageLog' = [log EXCEPT !.calls[listener] = @ + 1,
                             !.sum[listener] = @ + count]

\* variant: the usage of a response is not forwarded
trackUsage_drop(response) == UNCHANGED usageVars

\* variant: the listener is called with a count of zero as well
trackUsage_notifyZero(response) ==
  LET total == usageTotal(response)
      noted == [usageLog EXCEPT !.records = @ + 1,
                                !.last = Some(response.usageMetadata)]
  IN  /\ IF tokenListener = None
         THEN UNCHANGED totalTokens /\ usageLog' = noted
         ELSE callListener(The(tokenListener), total, noted)
      /\ UNCHANGED tokenListener

trackUsage(response) ==
  LET total == usageTotal(response)
      noted == [usageLog EXCEPT !.records = @ + 1,
                                !.last = Some(response.usageMetadata)]
  IN  /\ IF tokenListener = None
         THEN UNCHANGED totalTokens /\ usageLog' = noted
         ELSE IF total > 0
              THEN callListener(The(tokenListener), total, noted)
              ELSE UNCHANGED totalTokens /\ usageLog' = noted
      /\ UNCHANGED tokenListener

\* variant: a listener that is already registered is kept
setTokenListener_keepFirst(listener) ==
  /\ tokenListener' = IF tokenListener = None THEN Some(listener)
                      ELSE tokenListener
  /\ usageLog' = [usageLog EXCEPT !.requested = Some(listener)]
  /\ UNCHANGED totalTokens

setTokenListener(listener) ==
  /\ tokenListener' = Some(listener)
  /\ usageLog' = [usageLog EXCEPT !.requested = Some(listener)]
  /\ UNCHANGED totalTokens

\* ------------------------------------------------------------------------
\* The usage tracker on its own: listeners are registered and the responses
\* of completed model calls are recorded in any order. trackUsage runs to
\* completion within one step of whichever call received the response, so
\* every interleaving of calls is a sequence of these steps.
\* ------------------------------------------------------------------------
\* the usageMetadata of a response: missing, or with each count missing,
\* zero or positive
UsageReports ==
  {None} \cup
  {Some(Usage(t, p, c)) : t \in {None, Some(0), Some(7)},
                          p \in {None, Some(0), Some(5)},
                          c \in {None, Some(0), Some(3)}}
UsageResponses == {[RespBlank EXCEPT !.usageMetadata = u] : u \in UsageReports}

RegisterListener ==
  \E l \in Listeners :
    /\ setTokenListener(l)
    /\ UNCHANGED <<retryVars, researchVars, settleOrder, chatVars, draftVars, viewVars>>

RecordUsage ==
  \E r \in UsageResponses :
    /\ usageLog.records < MaxRecords
    /\ trackUsage(r)
    /\ UNCHANGED <<retryVars, researchVars, settleOrder, chatVars, draftVars, viewVars>>

InitUsage == InitChains /\ InitApp /\ files = <<>>

NextUsage ==
  \/ RegisterListener
  \/ RecordUsage

SpecUsage == InitUsage /\ [][NextUsage]_vars

\* ------------------------------------------------------------------------
\* researchLegalPrecedent (part_000 lines 98-180)
\* ------------------------------------------------------------------------
Whitespace == {" ", "\t", "\n"}

RECURSIVE trimStart(_)
trimStart(str) ==
  IF str # <<>> /\ Head(str) \in Whitespace THEN trimStart(Tail(str)) ELSE str

RECURSIVE trimEnd(_)
trimEnd(str) ==
  IF str # <<>> /\ str[Len(str)] \in Whitespace
  THEN trimEnd(SubSeq(str, 1, Len(str) - 1))
  ELSE str

\* str.trim()
trim(str) == trimEnd(trimStart(str))

\* variant: the text is not trimmed before the test and the insertion
textOr_noTrim(res, placeholder) ==
  IF res.text = None \/ The(res.text) = <<>>
  THEN placeholder
  ELSE The(res.text)

\* res.text?.trim() || placeholder
textOr(res, placeholder) ==
  IF res.text = None \/ trim(The(res.text)) = <<>>
  THEN placeholder
  ELSE trim(The(res.text))

DigitChars == <<"0", "1", "2", "3", "4", "5", "6", "7", "8", "9">>

\* the decimal digits of n, as template literals print a number
RECURSIVE toString(_)
toString(n) ==
  IF n < 10 THEN <<DigitChars[n + 1]>>
  ELSE toString(n \div 10) \o <<DigitChars[(n % 10) + 1]>>

\* lines.join("\n")
RECURSIVE join(_)
join(lines) ==
  IF lines = <<>> THEN <<>>
  ELSE IF Len(lines) = 1 THEN lines[1]
  ELSE lines[1] \o <<"\n">> \o join(Tail(lines))

\* res.candidates?.[0]?.groundingMetadata?.groundingChunks ?? []
groundingChunks(res) == The(Coalesce(res.groundingChunks, Some(<<>>)))

\* .filter((c) => c.web?.uri)
hasUri(chunk) ==
  /\ chunk.web # None
  /\ The(chunk.web).uri # None
  /\ The(The(chunk.web).uri) # <<>>

\* .map((c) => ({ title: c.web.title ?? "Untitled source", uri: c.web.uri }))
toSource(chunk) ==
  [title |-> The(Coalesce(The(chunk.web).title, Some(UntitledSource))),
   uri |-> The(The(chunk.web).uri)]

RECURSIVE extractSources(_)
extractSources(chunks) ==
  IF chunks = <<>> THEN <<>>
  ELSE IF hasUri(Head(chunks))
       THEN <<toSource(Head(chunks))>> \o extractSources(Tail(chunks))
       ELSE extractSources(Tail(chunks))

\* variant: setting an existing key moves the entry to the end
mapSet_moveToEnd(entries, s) ==
  Append(SelectSeq(entries, LAMBDA e : e.uri # s.uri), s)

\* variant: an existing key keeps its value
mapSet_keepFirst(entries, s) ==
  IF \E i \in 1..Len(entries) : entries[i].uri = s.uri
  THEN entries
  ELSE Append(entries, s)

\* Map.prototype.set on a map kept as its entries in insertion order: an
\* existing key keeps its position and takes the new value
mapSet(entries, s) ==
  IF \E i \in 1..Len(entries) : entries[i].uri = s.uri
  THEN [i \in 1..Len(entries) |->
          IF entries[i].uri = s.uri THEN s ELSE entries[i]]
  ELSE Append(entries, s)

\* new Map(allSources.map((s) => [s.uri, s]))
RECURSIVE newMap(_, _)
newMap(entries, sources) ==
  IF sources = <<>> THEN entries
  ELSE newMap(mapSet(entries, Head(sources)), Tail(sources))

\* variant: the sources are not deduplicated
uniqueSources_noDedup(allSources) == allSources

\* Array.from(new Map(...).values())
uniqueSources(allSources) == newMap(<<>>, allSources)

combinedText(caseRes, statuteRes, sources) ==
  join(<<ReportTitle,
         <<>>,
         CaseLawHeading,
         textOr(caseRes, NoCaseLaw),
         <<>>,
         StatutesHeading,
         textOr(statuteRes, NoStatutes),
         <<>>,
         SourcesPrefix \o toString(Len(sources)) \o SourcesSuffix>>)

\* the body of the try block after Promise.all (lines 146-173)
researchReport(caseRes, statuteRes) ==
  LET allSources == extractSources(groundingChunks(caseRes))
                      \o extractSources(groundingChunks(statuteRes))
      sources == uniqueSources(allSources)
  IN  [text |-> combinedText(caseRes, statuteRes, sources), sources |-> sources]

ResearchFailed ==
  [status |-> None, code |-> None, message |-> Some(ResearchFailedMessage)]

\* variant: the underlying error is rethrown
researchFailure_rethrow(err) == err

\* catch (err) { throw new Error("Failed to complete grounded legal research...") }
researchFailure(err) == ResearchFailed

\* variant: Promise.allSettled, the failure is delivered once every
\* invocation has settled
promiseAllSettles_waitAll ==
  IF /\ research = "awaiting"
     /\ \A c \in Chains : pc'[c] \in {"fulfilled", "rejected"}
     /\ \E c \in Chains : pc'[c] = "rejected"
  THEN /\ research' = "failed"
       /\ researchError' =
            Some(researchFailure(
              The(thrown'[CHOOSE c \in Chains : pc'[c] = "rejected"])))
       /\ UNCHANGED report
  ELSE IF research = "awaiting" /\ \A c \in Chains : pc'[c] = "fulfilled"
  THEN /\ research' = "returned"
       /\ report' = Some(researchReport(The(returned'[1]), The(returned'[2])))
       /\ UNCHANGED researchError
  ELSE UNCHANGED researchVars

\* variant: the responses are taken in the order in which they arrived
promiseAllSettles_arrivalOrder ==
  IF research = "awaiting" /\ \E c \in Chains : pc'[c] = "rejected"
  THEN /\ research' = "failed"
       /\ researchError' =
            Some(researchFailure(
              The(thrown'[CHOOSE c \in Chains : pc'[c] = "rejected"])))
       /\ UNCHANGED report
  ELSE IF research = "awaiting" /\ \A c \in Chains : pc'[c] = "fulfilled"
  THEN LET last == CHOOSE c \in Chains : pc[c] # "fulfilled"
           first == CHOOSE c \in Chains : c # last
       IN  /\ research' = "returned"
           /\ report' = Some(researchReport(The(returned'[first]),
                                            The(returned'[last])))
           /\ UNCHANGED researchError
  ELSE UNCHANGED researchVars

\* await Promise.all([...]) and what follows it, run in the same turn of the
\* event loop in which an invocation settles: the first rejection rejects
\* Promise.all, the last fulfilment resolves it
promiseAllSettles ==
  IF research = "awaiting" /\ \E c \in Chains : pc'[c] = "rejected"
  THEN /\ research' = "failed"
       /\ researchError' =
            Some(researchFailure(
              The(thrown'[CHOOSE c \in Chains : pc'[c] = "rejected"])))
       /\ UNCHANGED report
  ELSE IF research = "awaiting" /\ \A c \in Chains : pc'[c] = "fulfilled"
  THEN /\ research' = "returned"
       /\ report' = Some(researchReport(The(returned'[1]), The(returned'[2])))
       /\ UNCHANGED researchError
  ELSE UNCHANGED researchVars

\* the order in which the two promises handed to Promise.all settle
noteSettled ==
  LET now == {c \in Chains : /\ pc[c] \notin {"fulfilled", "rejected"}
                             /\ pc'[c] \in {"fulfilled", "rejected"}}
  IN  settleOrder' =
        IF now = {} THEN settleOrder
        ELSE Append(settleOrder, CHOOSE c \in now : TRUE)

\* errors explored during a research call
E429 == [status |-> Some(429), code |-> None, message |-> None]
EQuota == [status |-> None, code |-> None, message |-> Some(MsgQuotaExceeded)]
EBadRequest == [status |-> Some(500), code |-> None, message |-> Some(MsgBadRequest)]
Errors == {E429, EQuota, EBadRequest}

\* the effect App runs when it mounts (App.tsx lines 417-421), before any
\* view can start a call
Mount ==
  /\ tokenListener = None
  /\ setTokenListener("App")
  /\ UNCHANGED <<retryVars, researchVars, settleOrder, chatVars, draftVars, viewVars>>

\* variant: the statute call is given a fallback as well
StartResearch_bothFallbacks ==
  /\ tokenListener # None
  /\ research = "idle"
  /\ \A c \in Chains : pc[c] = "idle"
  /\ maxRetries' = [c \in Chains |-> DefaultMaxRetries]
  /\ hasFallback' = [c \in Chains |-> TRUE]
  /\ attempt' = [c \in Chains |-> 0]
  /\ lastError' = [c \in Chains |-> None]
  /\ pc' = [c \in Chains |-> "operation"]
  /\ inFlight' = [c \in Chains |-> {"operation"}]
  /\ trace' = [c \in Chains |-> [EmptyTrace EXCEPT !.primary = 1]]
  /\ research' = "awaiting"
  /\ UNCHANGED <<delay, returned, thrown, report, researchError, usageVars,
                 settleOrder, chatVars, draftVars, viewVars>>

\* researchLegalPrecedent(query) is called: both withRetry calls are made,
\* the first with a fallback and the second without, then Promise.all is
\* awaited (lines 119-144)
StartResearch ==
  /\ tokenListener # None
  /\ research = "idle"
  /\ \A c \in Chains : pc[c] = "idle"
  /\ maxRetries' = [c \in Chains |-> DefaultMaxRetries]
  /\ hasFallback' = [c \in Chains |-> c = 1]
  /\ attempt' = [c \in Chains |-> 0]
  /\ lastError' = [c \in Chains |-> None]
  /\ pc' = [c \in Chains |-> "operation"]
  /\ inFlight' = [c \in Chains |-> {"operation"}]
  /\ trace' = [c \in Chains |-> [EmptyTrace EXCEPT !.primary = 1]]
  /\ research' = "awaiting"
  /\ UNCHANGED <<delay, returned, thrown, report, researchError, usageVars,
                 settleOrder, chatVars, draftVars, viewVars>>

\* runTask of the primary operation resolves: trackUsage, return response
TaskResolves ==
  \E c \in Chains, r \in Responses :
    operationFulfilled(c, r) /\ trackUsage(r) /\ promiseAllSettles /\ noteSettled
    /\ UNCHANGED <<chatVars, draftVars, viewVars>>

TaskRejects ==
  \E c \in Chains, err \in Errors, j \in Jitters :
    operationRejected(c, err, j) /\ promiseAllSettles /\ noteSettled
    /\ UNCHANGED <<usageVars, chatVars, draftVars, viewVars>>

TaskBackoffElapses ==
  \E c \in Chains :
    timerFired(c) /\ promiseAllSettles /\ noteSettled
    /\ UNCHANGED <<usageVars, chatVars, draftVars, viewVars>>

\* runTask of the fallback operation resolves: trackUsage, return response
FallbackTaskResolves ==
  \E c \in Chains, r \in Responses :
    fallbackFulfilled(c, r) /\ trackUsage(r) /\ promiseAllSettles /\ noteSettled
    /\ UNCHANGED <<chatVars, draftVars, viewVars>>

FallbackTaskRejects ==
  \E c \in Chains, err \in Errors :
    fallbackRejected(c, err) /\ promiseAllSettles /\ noteSettled
    /\ UNCHANGED <<usageVars, chatVars, draftVars, viewVars>>

Init == InitChains /\ InitApp /\ files = <<>>

Next ==
  \/ Mount
  \/ StartResearch
  \/ TaskResolves
  \/ TaskRejects
  \/ TaskBackoffElapses
  \/ FallbackTaskResolves
  \/ FallbackTaskRejects

Spec == Init /\ [][Next]_vars

\* ------------------------------------------------------------------------
\* formatCaseFiles (part_000 lines 37-48)
\* ------------------------------------------------------------------------
\* str.slice(0, n)
slice(str, n) == SubSeq(str, 1, IF Len(str) < n THEN Len(str) ELSE n)

\* parts.join(separator)
RECURSIVE joinWith(_, _)
joinWith(parts, separator) ==
  IF parts = <<>> THEN <<>>
  ELSE IF Len(parts) = 1 THEN parts[1]
  ELSE parts[1] \o separator \o joinWith(Tail(parts), separator)

\* variant: the header reports the length of the content that is shown
formatFile_shownLength(f) ==
  LET safeContent == slice(trim(f.content), MaxContentChars)
  IN  FileOpen \o f.name \o FileLengthOpen \o toString(Len(safeContent))
        \o FileLengthClose \o safeContent \o FileEnd

\* `--- FILE: ${f.name} (${f.content.length} chars) ---\n${safeContent}\n--- END ---`
formatFile(f) ==
  LET safeContent == slice(trim(f.content), MaxContentChars)
  IN  FileOpen \o f.name \o FileLengthOpen \o toString(Len(f.content))
        \o FileLengthClose \o safeContent \o FileEnd

\* variant: the wrapper is built for an empty list of files as well
formatCaseFiles_alwaysWrap(fs) ==
  CaseFilesOpen
    \o joinWith([i \in 1..Len(fs) |-> formatFile(fs[i])], BlankLine)
    \o CaseFilesClose

formatCaseFiles(fs) ==
  IF Len(fs) = 0 THEN <<>>
  ELSE CaseFilesOpen
         \o joinWith([i \in 1..Len(fs) |-> formatFile(fs[i])], BlankLine)
         \o CaseFilesClose

\* ------------------------------------------------------------------------
\* chatWithExpert (part_000 lines 218-248) and Assistant.handleSend
\* (App.tsx lines 309-337)
\* ------------------------------------------------------------------------
\* context ? `CASE DATA (do NOT repeat unless asked):\n${context}\n\nUSER: ${message}`
\*         : message
fullMessage(context, message) ==
  IF context # <<>>
  THEN CaseDataPrefix \o context \o UserPrefix \o message
  ELSE message

\* variant: the text of the response is returned as it is
chatText_noTrim(res) ==
  IF res.text = None THEN NoResponseReceived ELSE The(res.text)

\* res.text?.trim() ?? "No response received."
chatText(res) ==
  IF res.text = None THEN NoResponseReceived ELSE trim(The(res.text))

\* variant: the history is taken from the list that holds the new user turn
toHistory_withNewTurn(msgs) ==
  [i \in 1..(Len(msgs) + 1) |->
     IF i <= Len(msgs)
     THEN [role |-> msgs[i].role, parts |-> <<[text |-> msgs[i].text]>>]
     ELSE [role |-> "user", parts |-> <<[text |-> input]>>]]

\* messages.map(m => ({ role: m.role, parts: [{ text: m.text }] }))
toHistory(msgs) ==
  [i \in 1..Len(msgs) |->
     [role |-> msgs[i].role, parts |-> <<[text |-> msgs[i].text]>>]]

\* variant: the payload sent to the model is kept as the user turn
userMsg_fullMessage(text) ==
  [role |-> "user", text |-> fullMessage(formatCaseFiles(files), text)]

\* const userMsg = { role: 'user', text: input }
userMsg(text) == [role |-> "user", text |-> text]

\* variant: the newest turn is put first
appendTurn_newestFirst(prev, turn) == <<turn>> \o prev

\* prev => [...prev, turn]
appendTurn(prev, turn) == Append(prev, turn)

\* the turn appended when chatWithExpert resolved with responseText
replyTurn(responseText) == [role |-> "model", text |-> responseText]

\* variant: the message of the error is shown
failureTurn_rawError(err) ==
  [role |-> "model", text |-> The(Coalesce(err.message, Some(Apology)))]

\* the turn appended when chatWithExpert rejected with err
failureTurn(err) == [role |-> "model", text |-> Apology]

\* a case file with surrounding whitespace in its content
FileA == [name |-> <<"a", ".", "t", "x", "t">>, content |-> <<" ", "a", "b", " ">>]
\* the sets of case files explored
FileSets == {<<>>, <<FileA>>}
\* the texts typed into the input field
UserTexts == {<<"h", "i">>, <<" ", "q", " ">>, <<" ">>}
\* the responses and errors explored for a chat model call
ChatResponses == {RespA, RespBlank, RespC}
ChatErrors == {E429, EBadRequest}

\* variant: the input field stays enabled while a call is pending
inputDisabled_never == FALSE

\* disabled={thinking} of the input field
inputDisabled == thinking

\* disabled={thinking || !input.trim()} of the Send button
sendDisabled == thinking \/ trim(input) = <<>>

\* onChange of the input field, which is disabled while thinking
TypeInput ==
  /\ ~inputDisabled
  /\ \E t \in UserTexts : input' = t
  /\ UNCHANGED <<files, messages, thinking, chatCall, chatResponse>>
  /\ UNCHANGED <<retryVars, usageVars, researchVars, settleOrder, draftVars, viewVars>>

\* handleSend, from Enter in the input field or the Send button, both
\* disabled while thinking: the user turn is appended, chatWithExpert is
\* called with the turns rendered so far and runs up to the await of the
\* first runChat(MODELS.reasoning)
HandleSend ==
  /\ tokenListener # None
  /\ ~inputDisabled \/ ~sendDisabled
  /\ Len(messages) < 1 + 2 * MaxSends
  /\ trim(input) # <<>>
  /\ messages' = appendTurn(messages, userMsg(input))
  /\ input' = <<>>
  /\ thinking' = TRUE
  /\ chatCall' = Some([message |-> input,
                       history |-> toHistory(messages),
                       fullMessage |-> fullMessage(formatCaseFiles(files), input)])
  /\ chatResponse' = None
  /\ maxRetries' = [maxRetries EXCEPT ![1] = DefaultMaxRetries]
  /\ hasFallback' = [hasFallback EXCEPT ![1] = TRUE]
  /\ attempt' = [attempt EXCEPT ![1] = 0]
  /\ lastError' = [lastError EXCEPT ![1] = None]
  /\ delay' = [delay EXCEPT ![1] = 0]
  /\ returned' = [returned EXCEPT ![1] = None]
  /\ thrown' = [thrown EXCEPT ![1] = None]
  /\ pc' = [pc EXCEPT ![1] = "operation"]
  /\ inFlight' = [inFlight EXCEPT ![1] = {"operation"}]
  /\ trace' = [trace EXCEPT ![1] = [EmptyTrace EXCEPT !.primary = 1]]
  /\ UNCHANGED <<files, usageVars, researchVars, settleOrder, draftVars, viewVars>>

\* variant: a failed call adds no turn
handleSendSettles_silentFailure ==
  /\ IF pc[1] # "fulfilled" /\ pc'[1] = "fulfilled"
     THEN /\ messages' = appendTurn(messages, replyTurn(The(returned'[1])))
          /\ thinking' = FALSE
     ELSE IF pc[1] # "rejected" /\ pc'[1] = "rejected"
     THEN /\ thinking' = FALSE
          /\ UNCHANGED messages
     ELSE UNCHANGED <<messages, thinking>>
  /\ UNCHANGED <<files, input, chatCall>>

\* the rest of handleSend, run when the awaited chatWithExpert settles
\* (App.tsx lines 330-336)
handleSendSettles ==
  /\ IF pc[1] # "fulfilled" /\ pc'[1] = "fulfilled"
     THEN /\ messages' = appendTurn(messages, replyTurn(The(returned'[1])))
          /\ thinking' = FALSE
     ELSE IF pc[1] # "rejected" /\ pc'[1] = "rejected"
     THEN /\ messages' = appendTurn(messages, failureTurn(The(thrown'[1])))
          /\ thinking' = FALSE
     ELSE UNCHANGED <<messages, thinking>>
  /\ UNCHANGED <<files, input, chatCall>>

\* runChat(MODELS.reasoning) resolves: trackUsage, return the text
ChatResolves ==
  \E r \in ChatResponses :
    /\ operationFulfilled(1, chatText(r))
    /\ trackUsage(r)
    /\ chatResponse' = Some(r)
    /\ handleSendSettles
    /\ UNCHANGED <<researchVars, settleOrder, draftVars, viewVars>>

ChatRejects ==
  \E err \in ChatErrors, j \in Jitters :
    /\ operationRejected(1, err, j)
    /\ handleSendSettles
    /\ UNCHANGED <<usageVars, researchVars, settleOrder, chatResponse, draftVars, viewVars>>

ChatBackoffElapses ==
  /\ timerFired(1)
  /\ handleSendSettles
  /\ UNCHANGED <<usageVars, researchVars, settleOrder, chatResponse, draftVars, viewVars>>

\* runChat(MODELS.fast) resolves: trackUsage, return the text
ChatFallbackResolves ==
  \E r \in ChatResponses :
    /\ fallbackFulfilled(1, chatText(r))
    /\ trackUsage(r)
    /\ chatResponse' = Some(r)
    /\ handleSendSettles
    /\ UNCHANGED <<researchVars, settleOrder, draftVars, viewVars>>

ChatFallbackRejects ==
  \E err \in ChatErrors :
    /\ fallbackRejected(1, err)
    /\ handleSendSettles
    /\ UNCHANGED <<usageVars, researchVars, settleOrder, chatResponse, draftVars, viewVars>>

InitChat == InitChains /\ InitApp /\ files \in FileSets

NextChat ==
  \/ Mount
  \/ TypeInput
  \/ HandleSend
  \/ ChatResolves
  \/ ChatRejects
  \/ ChatBackoffElapses
  \/ ChatFallbackResolves
  \/ ChatFallbackRejects

SpecChat == InitChat /\ [][NextChat]_vars

\* ------------------------------------------------------------------------
\* draftMotion (part_000 lines 182-216) and MotionDrafter.handleDraft
\* (App.tsx lines 217-228)
\* ------------------------------------------------------------------------
\* "Draft a professional Indiana civil law motion regarding: "
DraftIntro ==
  <<"D", "r", "a", "f", "t", " ", "a", " ", "p", "r", "o", "f", "e", "s", "s", "i", "o", "n", "a", "l", " ", "I", "n", "d", "i", "a", "n", "a", " ", "c", "i", "v", "i", "l", " ", "l", "a", "w", " ", "m", "o", "t", "i", "o", "n", " ", "r", "e", "g", "a", "r", "d", "i", "n", "g", ":", " ">>
\* "Additional user instructions:\n"
InstructionsPrefix ==
  <<"A", "d", "d", "i", "t", "i", "o", "n", "a", "l", " ", "u", "s", "e", "r", " ", "i", "n", "s", "t", "r", "u", "c", "t", "i", "o", "n", "s", ":", "\n">>
\* "CASE CONTEXT:\n"
CaseContextPrefix ==
  <<"C", "A", "S", "E", " ", "C", "O", "N", "T", "E", "X", "T", ":", "\n">>
\* "// Motion drafting failed - please try again"; the dash of the source is
\* an en dash (U+2013), written "-" here
DraftingFailed ==
  <<"/", "/", " ", "M", "o", "t", "i", "o", "n", " ", "d", "r", "a", "f", "t", "i", "n", "g", " ", "f", "a", "i", "l", "e", "d", " ", "-", " ", "p", "l", "e", "a", "s", "e", " ", "t", "r", "y", " ", "a", "g", "a", "i", "n">>

\* parts.filter(Boolean): the empty strings are dropped
filterBoolean(parts) == SelectSeq(parts, LAMBDA part : part # <<>>)

\* the prompt draftMotion builds (lines 187-195)
draftPrompt(topic, fs, userInstructions) ==
  LET context == formatCaseFiles(fs)
  IN  joinWith(filterBoolean(<<
        DraftIntro \o topic,
        IF userInstructions # <<>>
        THEN InstructionsPrefix \o userInstructions ELSE <<>>,
        IF context # <<>> THEN CaseContextPrefix \o context ELSE <<>> >>),
        BlankLine)

\* response.text?.trim() || "// Motion drafting failed - please try again"
draftText(response) ==
  LET text == IF response.text = None THEN <<>> ELSE trim(The(response.text))
  IN  IF text # <<>> THEN text ELSE DraftingFailed

\* the largest number of drafting calls of one behaviour
MaxDrafts == 2
\* the motion types and instructions typed into the fields of MotionDrafter
Topics == {<<>>, <<"T">>}
InstructionTexts == {<<>>, <<"I">>}
\* the responses and errors explored for a drafting model call
DraftResponses == {RespA, RespBlank, RespC}
DraftErrors == {E429, EBadRequest}

\* handleDraft, from the Generate button, which is disabled while loading:
\* draftMotion builds the prompt and runs up to the await of the first
\* runDraft(MODELS.reasoning)
HandleDraft ==
  \E topic \in Topics, instructions \in InstructionTexts :
    /\ tokenListener # None
    /\ ~draftLoading
    /\ draftsStarted < MaxDrafts
    /\ topic # <<>> /\ instructions # <<>>
    /\ draftLoading' = TRUE
    /\ draftCall' = Some([topic |-> topic, userInstructions |-> instructions,
                          prompt |-> draftPrompt(topic, files, instructions)])
    /\ draftsStarted' = draftsStarted + 1
    /\ maxRetries' = [maxRetries EXCEPT ![1] = DefaultMaxRetries]
    /\ hasFallback' = [hasFallback EXCEPT ![1] = TRUE]
    /\ attempt' = [attempt EXCEPT ![1] = 0]
    /\ lastError' = [lastError EXCEPT ![1] = None]
    /\ delay' = [delay EXCEPT ![1] = 0]
    /\ returned' = [returned EXCEPT ![1] = None]
    /\ thrown' = [thrown EXCEPT ![1] = None]
    /\ pc' = [pc EXCEPT ![1] = "operation"]
    /\ inFlight' = [inFlight EXCEPT ![1] = {"operation"}]
    /\ trace' = [trace EXCEPT ![1] = [EmptyTrace EXCEPT !.primary = 1]]
    /\ UNCHANGED <<draft, usageVars, researchVars, settleOrder, chatVars, viewVars>>

\* the rest of handleDraft, run when the awaited draftMotion settles: the
\* text of the response withRetry returned becomes the draft, a failure is
\* reported with alert (App.tsx lines 221-227)
handleDraftSettles ==
  /\ IF pc[1] # "fulfilled" /\ pc'[1] = "fulfilled"
     THEN /\ draft' = draftText(The(returned'[1]))
          /\ draftLoading' = FALSE
     ELSE IF pc[1] # "rejected" /\ pc'[1] = "rejected"
     THEN /\ draftLoading' = FALSE
          /\ UNCHANGED draft
     ELSE UNCHANGED <<draft, draftLoading>>
  /\ UNCHANGED <<draftCall, draftsStarted>>

\* variant: draftMotion returns the text without recording the usage
DraftResolves_untracked ==
  \E r \in DraftResponses :
    /\ operationFulfilled(1, r)
    /\ handleDraftSettles
    /\ UNCHANGED <<usageVars, researchVars, settleOrder, chatVars, viewVars>>

\* runDraft(MODELS.reasoning) resolves: withRetry returns the response,
\* draftMotion calls trackUsage and returns the text
DraftResolves ==
  \E r \in DraftResponses :
    /\ operationFulfilled(1, r)
    /\ trackUsage(r)
    /\ handleDraftSettles
    /\ UNCHANGED <<researchVars, settleOrder, chatVars, viewVars>>

DraftRejects ==
  \E err \in DraftErrors, j \in Jitters :
    /\ operationRejected(1, err, j)
    /\ handleDraftSettles
    /\ UNCHANGED <<usageVars, researchVars, settleOrder, chatVars, viewVars>>

DraftBackoffElapses ==
  /\ timerFired(1)
  /\ handleDraftSettles
  /\ UNCHANGED <<usageVars, researchVars, settleOrder, chatVars, viewVars>>

\* runDraft(MODELS.fast) resolves
DraftFallbackResolves ==
  \E r \in DraftResponses :
    /\ fallbackFulfilled(1, r)
    /\ trackUsage(r)
    /\ handleDraftSettles
    /\ UNCHANGED <<researchVars, settleOrder, chatVars, viewVars>>

DraftFallbackRejects ==
  \E err \in DraftErrors :
    /\ fallbackRejected(1, err)
    /\ handleDraftSettles
    /\ UNCHANGED <<usageVars, researchVars, settleOrder, chatVars, viewVars>>

NextDraft ==
  \/ Mount
  \/ HandleDraft
  \/ DraftResolves
  \/ DraftRejects
  \/ DraftBackoffElapses
  \/ DraftFallbackResolves
  \/ DraftFallbackRejects

\* ------------------------------------------------------------------------
\* The three views that make model calls. App renders one view at a time
\* (App.tsx lines 512-520); a behaviour stays in the view in which its first
\* call, or its first keystroke in the Assistant, was made.
\* ------------------------------------------------------------------------
ResearchView ==
  /\ chatCall = None /\ input = <<>> /\ draftCall = None
  /\ Next

AssistantView ==
  /\ research = "idle" /\ draftCall = None
  /\ NextChat

DraftingView ==
  /\ research = "idle" /\ chatCall = None /\ input = <<>>
  /\ NextDraft

InitCalls == InitChains /\ InitApp /\ files \in FileSets

NextCalls ==
  \/ ResearchView
  \/ AssistantView
  \/ DraftingView

SpecCalls == InitCalls /\ [][NextCalls]_vars

\* The same views under the scheduling the program runs with: the promise of
\* a model call that is awaited (lines 60 and 86) is eventually settled by
\* the SDK, and the timer of a backoff (line 79) eventually fires. The
\* environment is narrowed to one response, one retryable and one permanent
\* error, no jitter and one text typed in the Assistant.
termInputs ==
  /\ \A c \in Chains :
       /\ lastError'[c] \subseteq {E429, EBadRequest}
       /\ trace'[c].fallbackError \subseteq {E429}
       /\ delay'[c] = delay[c]
            \/ \E a \in 0..DefaultMaxRetries :
                 delay'[c] = backoffDelay(DefaultBaseDelayMs, a, 0)
  /\ input' \in {<<>>, <<"h", "i">>}
  /\ usageLog'.last \subseteq {RespA.usageMetadata}

NextTerm ==
  \/ ResearchView /\ termInputs
  \/ AssistantView /\ termInputs
  \/ DraftingView /\ termInputs

\* the model call awaited by invocation c settles, whatever view made it
modelCallSettles(c) ==
  \/ \E r \in {RespA} : operationFulfilled(c, r) \/ fallbackFulfilled(c, r)
  \/ \E err \in {E429, EBadRequest} :
       operationRejected(c, err, 0) \/ fallbackRejected(c, err)

\* the backoff timer of invocation c fires
backoffElapses(c) == timerFired(c)

InitTerm == InitChains /\ InitApp /\ files = <<>>

FairCalls ==
  /\ InitTerm
  /\ [][NextTerm]_vars
  /\ \A c \in Chains : /\ WF_retryVars(modelCallSettles(c))
                       /\ WF_retryVars(backoffElapses(c))

\* ------------------------------------------------------------------------
\* formatCaseFiles on its own, with contents around the limit of 14000
\* characters
\* ------------------------------------------------------------------------
\* a content of lead blanks, solid characters and trail blanks
Content(lead, solid, trail) ==
  [i \in 1..(lead + solid + trail) |->
     IF i <= lead \/ i > lead + solid THEN " " ELSE "x"]
ContentLengths ==
  {0, 1, MaxContentChars - 1, MaxContentChars, MaxContentChars + 1,
   MaxContentChars + 7}
Blanks == {0, 1, 2}
LongFiles ==
  {[name |-> <<"b">>, content |-> Content(lead, solid, trail)] :
     lead \in Blanks, solid \in ContentLengths, trail \in Blanks}
\* the lists of case files explored: one file, or a short file and one more
LongFileSets == {<<f>> : f \in LongFiles} \cup {<<FileA, f>> : f \in LongFiles}

\* const context = this.formatCaseFiles(files)
Format ==
  /\ formatted = None
  /\ formatted' = Some(formatCaseFiles(files))
  /\ UNCHANGED <<retryVars, usageVars, researchVars, settleOrder, chatVars,
                 draftVars, toolVars, storeVars>>

InitFormat == InitChains /\ InitApp /\ files \in LongFileSets

NextFormat == Format

SpecFormat == InitFormat /\ [][NextFormat]_vars

\* ------------------------------------------------------------------------
\* FileManager.handleFileChange (App.tsx lines 11-56) and the files of App
\* with its onUpload and onDelete (App.tsx lines 403-414, 515-519)
\* ------------------------------------------------------------------------
\* a file saved by an earlier session and loaded from localStorage
StoredFile == [id |-> toString(0), name |-> <<"s">>, content |-> <<"s">>]
StoredFileSets == {<<>>, <<StoredFile>>}

\* const newFile = { id: Date.now().toString(), name: file.name, ... content }
newFile(u, now) ==
  [id |-> toString(now), name |-> toString(u), content |-> <<"c">>]

\* (f) => setFiles([...files, f]) of the render whose files is rendered
onUpload(rendered, f) == files' = Append(rendered, f)

\* (id) => setFiles(files.filter(f => f.id !== id))
onDelete(id) == files' = SelectSeq(files, LAMBDA f : f.id # id)

\* a file is chosen in the file input: handleFileChange runs up to the await
\* of the read (readAsDataURL or file.text()), holding the onUpload of the
\* current render
PickFile ==
  \E u \in Uploads :
    /\ uploads[u].state = "none"
    /\ \A v \in Uploads : v < u => uploads[v].state # "none"
    /\ uploads' = [uploads EXCEPT ![u] = [state |-> "reading", onUpload |-> files]]
    /\ UNCHANGED <<files, clock, storeLog>>
    /\ UNCHANGED <<messages, input, thinking, chatCall, chatResponse>>
    /\ UNCHANGED <<retryVars, usageVars, researchVars, settleOrder, draftVars,
                   formatVars, toolVars>>

\* the read resolves: the new file gets the current time as id and is
\* handed to the onUpload the handler holds
ReadCompletes ==
  \E u \in Uploads :
    /\ uploads[u].state = "reading"
    /\ onUpload(uploads[u].onUpload, newFile(u, clock))
    /\ uploads' = [uploads EXCEPT ![u].state = "done"]
    /\ storeLog' = [storeLog EXCEPT !.completed = @ \cup {newFile(u, clock)}]
    /\ UNCHANGED clock
    /\ UNCHANGED <<messages, input, thinking, chatCall, chatResponse>>
    /\ UNCHANGED <<retryVars, usageVars, researchVars, settleOrder, draftVars,
                   formatVars, toolVars>>

\* the read rejects: the handler ends without calling onUpload
ReadFails ==
  \E u \in Uploads :
    /\ uploads[u].state = "reading"
    /\ uploads' = [uploads EXCEPT ![u].state = "failed"]
    /\ UNCHANGED <<files, clock, storeLog>>
    /\ UNCHANGED <<messages, input, thinking, chatCall, chatResponse>>
    /\ UNCHANGED <<retryVars, usageVars, researchVars, settleOrder, draftVars,
                   formatVars, toolVars>>

\* the delete button of a listed file: onDelete(file.id)
DeleteFile ==
  \E i \in 1..Len(files) :
    /\ onDelete(files[i].id)
    /\ storeLog' = [storeLog EXCEPT !.deleted = @ \cup {files[i].id}]
    /\ UNCHANGED <<uploads, clock>>
    /\ UNCHANGED <<messages, input, thinking, chatCall, chatResponse>>
    /\ UNCHANGED <<retryVars, usageVars, researchVars, settleOrder, draftVars,
                   formatVars, toolVars>>

\* a millisecond passes
Tick ==
  /\ clock <= MaxUploads
  /\ clock' = clock + 1
  /\ UNCHANGED <<files, uploads, storeLog>>
  /\ UNCHANGED <<messages, input, thinking, chatCall, chatResponse>>
  /\ UNCHANGED <<retryVars, usageVars, researchVars, settleOrder, draftVars,
                 formatVars, toolVars>>

InitFiles == InitChains /\ InitApp /\ files \in StoredFileSets

NextFiles ==
  \/ PickFile
  \/ ReadCompletes
  \/ ReadFails
  \/ DeleteFile
  \/ Tick

SpecFiles == InitFiles /\ [][NextFiles]_vars

\* ------------------------------------------------------------------------
\* ResearchTool (App.tsx lines 119-163): handleResearch may be called again
\* while an earlier call is awaited. Call k of the view makes its case-law
\* invocation on chain 2k - 1 and its statute invocation on chain 2k.
\* ------------------------------------------------------------------------
ViewChains == {2 * k - 1 : k \in ViewCalls} \cup {2 * k : k \in ViewCalls}
caseLawChain(k) == 2 * k - 1
statuteChain(k) == 2 * k
chainsOf(k) == {caseLawChain(k), statuteChain(k)}

\* model calls that fail in one behaviour of the view
MaxRejections == 2
Rejections ==
  Cardinality({<<c, i>> \in ViewChains \X (1..(DefaultMaxRetries + 1)) :
                 /\ i <= Len(trace[c].history)
                 /\ trace[c].history[i] # "ok"})
  + Cardinality({c \in ViewChains : trace[c].fallbackError # None})

Queries == {<<" ">>, <<"q">>}
ViewResponses == {RespA, RespB}
ViewErrors == {E429, EBadRequest}

\* the button is disabled while loading (line 159); the input, whose
\* onKeyDown calls handleResearch on Enter (line 156), never is
researchDisabled(control) == control = "button" /\ loading

\* variant: a new call aborts the invocations of the calls still pending
researchStarts_abortPending(k) ==
  LET aborted == {c \in ViewChains :
                    \E j \in ViewCalls : c \in chainsOf(j) /\ calls[j].state = "pending"}
  IN  /\ maxRetries' = [c \in ViewChains |->
                          IF c \in chainsOf(k) THEN DefaultMaxRetries ELSE maxRetries[c]]
      /\ hasFallback' = [c \in ViewChains |->
                           IF c \in chainsOf(k) THEN c = caseLawChain(k)
                           ELSE hasFallback[c]]
      /\ attempt' = [c \in ViewChains |-> IF c \in chainsOf(k) THEN 0 ELSE attempt[c]]
      /\ lastError' = [c \in ViewChains |->
                         IF c \in chainsOf(k) THEN None ELSE lastError[c]]
      /\ pc' = [c \in ViewChains |->
                  IF c \in chainsOf(k) THEN "operation"
                  ELSE IF c \in aborted /\ pc[c] \notin {"fulfilled", "rejected"}
                  THEN "idle" ELSE pc[c]]
      /\ inFlight' = [c \in ViewChains |->
                        IF c \in chainsOf(k) THEN {"operation"}
                        ELSE IF c \in aborted THEN {} ELSE inFlight[c]]
      /\ trace' = [c \in ViewChains |->
                     IF c \in chainsOf(k) THEN [EmptyTrace EXCEPT !.primary = 1]
                     ELSE trace[c]]
      /\ UNCHANGED <<delay, returned, thrown>>

\* researchLegalPrecedent of call k up to await Promise.all (lines 119-144)
researchStarts(k) ==
  /\ maxRetries' = [c \in ViewChains |->
                      IF c \in chainsOf(k) THEN DefaultMaxRetries ELSE maxRetries[c]]
  /\ hasFallback' = [c \in ViewChains |->
                       IF c \in chainsOf(k) THEN c = caseLawChain(k) ELSE hasFallback[c]]
  /\ attempt' = [c \in ViewChains |-> IF c \in chainsOf(k) THEN 0 ELSE attempt[c]]
  /\ lastError' = [c \in ViewChains |->
                     IF c \in chainsOf(k) THEN None ELSE lastError[c]]
  /\ pc' = [c \in ViewChains |-> IF c \in chainsOf(k) THEN "operation" ELSE pc[c]]
  /\ inFlight' = [c \in ViewChains |->
                    IF c \in chainsOf(k) THEN {"operation"} ELSE inFlight[c]]
  /\ trace' = [c \in ViewChains |->
                 IF c \in chainsOf(k) THEN [EmptyTrace EXCEPT !.primary = 1]
                 ELSE trace[c]]
  /\ UNCHANGED <<delay, returned, thrown>>

\* handleResearch of lines 125-129, called from the button or with Enter:
\* setLoading(true), setResult(null) and the call, up to its await
HandleResearch ==
  \E control \in {"button", "enter"}, q \in Queries, k \in ViewCalls :
    /\ tokenListener # None
    /\ ~researchDisabled(control)
    /\ calls[k].state = "none"
    /\ \A j \in ViewCalls : j < k => calls[j].state # "none"
    /\ IF trim(q) = <<>>
       THEN UNCHANGED <<retryVars, toolVars>>
       ELSE /\ loading' = TRUE
            /\ result' = None
            /\ researchStarts(k)
            /\ calls' = [calls EXCEPT ![k].state = "pending"]
    /\ UNCHANGED <<usageVars, researchVars, settleOrder, chatVars, draftVars,
                   formatVars, storeVars>>

\* what the Promise.all of call k has become after this step (lines 144-179)
outcome(k) ==
  IF \E c \in chainsOf(k) : pc'[c] = "rejected"
  THEN [state |-> "failed", report |-> None,
        error |-> Some(researchFailure(
                    The(thrown'[CHOOSE c \in chainsOf(k) : pc'[c] = "rejected"]))),
        shown |-> "alert"]
  ELSE IF \A c \in chainsOf(k) : pc'[c] = "fulfilled"
  THEN [state |-> "returned",
        report |-> Some(researchReport(The(returned'[caseLawChain(k)]),
                                       The(returned'[statuteChain(k)]))),
        error |-> None, shown |-> "result"]
  ELSE calls[k]

\* the rest of handleResearch (lines 129-136), run in the turn in which the
\* awaited call settles: setResult(data) or the alert, then setLoading(false)
handleResearchSettles ==
  /\ calls' = [k \in ViewCalls |->
                 IF calls[k].state = "pending" THEN outcome(k) ELSE calls[k]]
  /\ LET done == {k \in ViewCalls : calls[k].state = "pending"
                                     /\ calls'[k].state # "pending"}
     IN  IF done = {}
         THEN UNCHANGED <<loading, result>>
         ELSE LET k == CHOOSE j \in done : TRUE
              IN  /\ result' = IF calls'[k].state = "returned"
                               THEN calls'[k].report ELSE result
                  /\ loading' = FALSE

ViewTaskResolves ==
  \E c \in ViewChains, r \in ViewResponses :
    operationFulfilled(c, r) /\ trackUsage(r) /\ handleResearchSettles
    /\ UNCHANGED <<researchVars, settleOrder, chatVars, draftVars, formatVars,
                   storeVars>>

ViewTaskRejects ==
  \E c \in ViewChains, err \in ViewErrors, j \in Jitters :
    /\ Rejections < MaxRejections
    /\ operationRejected(c, err, j) /\ handleResearchSettles
    /\ UNCHANGED <<usageVars, researchVars, settleOrder, chatVars, draftVars,
                   formatVars, storeVars>>

ViewBackoffElapses ==
  \E c \in ViewChains :
    timerFired(c) /\ handleResearchSettles
    /\ UNCHANGED <<usageVars, researchVars, settleOrder, chatVars, draftVars,
                   formatVars, storeVars>>

ViewFallbackResolves ==
  \E c \in ViewChains, r \in ViewResponses :
    fallbackFulfilled(c, r) /\ trackUsage(r) /\ handleResearchSettles
    /\ UNCHANGED <<researchVars, settleOrder, chatVars, draftVars, formatVars,
                   storeVars>>

ViewFallbackRejects ==
  \E c \in ViewChains, err \in ViewErrors :
    /\ Rejections < MaxRejections
    /\ fallbackRejected(c, err) /\ handleResearchSettles
    /\ UNCHANGED <<usageVars, researchVars, settleOrder, chatVars, draftVars,
                   formatVars, storeVars>>

InitView ==
  /\ pc = [c \in ViewChains |-> "idle"]
  /\ maxRetries = [c \in ViewChains |-> DefaultMaxRetries]
  /\ hasFallback = [c \in ViewChains |-> FALSE]
  /\ attempt = [c \in ViewChains |-> 0]
  /\ lastError = [c \in ViewChains |-> None]
  /\ delay = [c \in ViewChains |-> 0]
  /\ returned = [c \in ViewChains |-> None]
  /\ thrown = [c \in ViewChains |-> None]
  /\ inFlight = [c \in ViewChains |-> {}]
  /\ trace = [c \in ViewChains |-> EmptyTrace]
  /\ InitApp
  /\ files = <<>>

NextView ==
  \/ Mount
  \/ HandleResearch
  \/ ViewTaskResolves
  \/ ViewTaskRejects
  \/ ViewBackoffElapses
  \/ ViewFallbackResolves
  \/ ViewFallbackRejects

SpecView == InitView /\ [][NextView]_vars

\* ------------------------------------------------------------------------
\* Properties of withRetry (checked under SpecRetry)
\* ------------------------------------------------------------------------
History(c) == trace[c].history
LeftLoop(c) == pc[c] \in {"fallback", "fulfilled", "rejected"}
AllRetryable(h) == h # <<>> /\ \A i \in 1..Len(h) : h[i] = "retryable"
Failures(h) == Cardinality({i \in 1..Len(h) : h[i] # "ok"})
FallbackCalls(c) == IF hasFallback[c] THEN 1 ELSE 0

\* C1: when every primary attempt has failed with a retryable error and the
\* loop is over, the primary was attempted exactly maxRetries + 1 times, and
\* the fallback exactly once if one was supplied (never otherwise).
C1_ExhaustedRetries ==
  \A c \in Chains :
    (LeftLoop(c) /\ AllRetryable(History(c))) =>
      /\ trace[c].primary = maxRetries[c] + 1
      /\ Len(History(c)) = maxRetries[c] + 1
      /\ trace[c].fallback = FallbackCalls(c)

C1_Witness ==
  /\ pc[1] = "fallback"
  /\ maxRetries[1] = DefaultMaxRetries
  /\ AllRetryable(History(1))
  /\ trace[1].primary = DefaultMaxRetries + 1
  /\ trace[1].fallback = 1

\* C2: a non-retryable failure of the primary is the last primary attempt:
\* no sleep and no further primary attempt follows it, the fallback (if
\* supplied) is attempted exactly once; when the first attempt fails that
\* way the primary was attempted exactly once and nothing slept.
C2_NonRetryable ==
  \A c \in Chains :
    \A i \in 1..Len(History(c)) :
      History(c)[i] = "permanent" =>
        /\ i = Len(History(c))
        /\ trace[c].primary = i
        /\ trace[c].sleeps = i - 1
        /\ pc[c] \notin {"operation", "sleep"}
        /\ inFlight[c] \subseteq {"fallback"}
        /\ trace[c].fallback = FallbackCalls(c)

C2_Witness ==
  /\ History(1) = <<"permanent">>
  /\ hasFallback[1]
  /\ pc[1] = "fulfilled"
  /\ trace[1].primary = 1
  /\ trace[1].sleeps = 0
  /\ trace[1].fallback = 1

\* C3: once the primary has succeeded, after any number of retryable
\* failures that left an attempt, the invocation has returned the primary's
\* value, no operation is in flight, no primary attempt was made after the
\* success and the fallback was never invoked.
C3_SuccessAfterRetries ==
  \A c \in Chains :
    LET h == History(c) IN
      (h # <<>> /\ h[Len(h)] = "ok") =>
        /\ pc[c] = "fulfilled"
        /\ returned[c] = trace[c].primaryValue
        /\ returned[c] # None
        /\ thrown[c] = None
        /\ trace[c].primary = Len(h)
        /\ trace[c].fallback = 0
        /\ inFlight[c] = {}
        /\ \A i \in 1..(Len(h) - 1) : h[i] = "retryable"

C3_Witness ==
  /\ History(1) = <<"retryable", "retryable", "ok">>
  /\ hasFallback[1]
  /\ pc[1] = "fulfilled"
  /\ returned[1] = Some(RespB)

\* C4: an invocation never makes more than maxRetries + 1 primary attempts
\* nor more than one fallback attempt.
C4_AttemptBounds ==
  \A c \in Chains :
    /\ trace[c].primary <= maxRetries[c] + 1
    /\ trace[c].fallback <= 1

C4_Witness ==
  /\ maxRetries[1] = 2
  /\ trace[1].primary = 3
  /\ trace[1].fallback = 1
  /\ pc[1] = "rejected"

\* C5 as stated: when the fallback fails, the error withRetry rejects with is
\* the fallback's error.
C5_FallbackErrorPropagates ==
  \A c \in Chains :
    (pc[c] = "rejected" /\ trace[c].fallbackError # None) =>
      thrown[c] = trace[c].fallbackError

\* C5 amended: when the fallback fails, withRetry rejects at once (nothing is
\* in flight, no further attempt), and the error it rejects with is the
\* error of the last primary attempt.
C5_FallbackFailureThrowsLastError ==
  \A c \in Chains :
    trace[c].fallbackError # None =>
      /\ pc[c] = "rejected"
      /\ inFlight[c] = {}
      /\ trace[c].fallback = 1
      /\ thrown[c] # None
      /\ thrown[c] = trace[c].primaryError

C5_Witness ==
  /\ pc[1] = "rejected"
  /\ trace[1].fallbackError = Some(E429)
  /\ trace[1].primaryError = Some(EBadRequest)
  /\ thrown[1] = Some(EBadRequest)

\* C6: without a fallback, a failed invocation rejects with the error of the
\* last primary attempt made, never with the generic error.
C6_LastErrorRethrown ==
  \A c \in Chains :
    (pc[c] = "rejected" /\ ~hasFallback[c]) =>
      /\ thrown[c] # None
      /\ thrown[c] = trace[c].primaryError
      /\ thrown[c] # Some(GenericError)

C6_Witness ==
  /\ pc[1] = "rejected"
  /\ ~hasFallback[1]
  /\ Len(History(1)) = 2
  /\ thrown[1] = Some(EBadRequest)

\* C7: at most one of operation, backoff timer and fallback of an invocation
\* is pending at any time, and it is the one the invocation is waiting for.
C7_Sequential ==
  \A c \in Chains :
    /\ Cardinality(inFlight[c]) <= 1
    /\ pc[c] = "operation" => inFlight[c] = {"operation"}
    /\ pc[c] = "sleep" => inFlight[c] = {"timer"}
    /\ pc[c] = "fallback" => inFlight[c] = {"fallback"}
    /\ pc[c] \in {"idle", "fulfilled", "rejected"} => inFlight[c] = {}

C7_Witness ==
  /\ pc[1] = "operation"
  /\ trace[1].primary = 3
  /\ trace[1].sleeps = 2
  /\ inFlight[1] = {"operation"}

\* C8: the latest primary failure was followed by a backoff sleep exactly
\* when attempts remained and its error is transient in the sense of the
\* specification (status, or code when the status is absent, 429 or 503, or
\* a message with one of the three markers).
C8_Classification ==
  \A c \in Chains :
    lastError[c] # None =>
      LET n == Failures(History(c)) IN
        IF Transient(The(lastError[c])) /\ n <= maxRetries[c]
        THEN trace[c].sleeps = n
        ELSE trace[c].sleeps = n - 1

C8_Witness ==
  /\ pc[1] = "sleep"
  /\ lastError[1] =
       Some([status |-> None, code |-> Some(503), message |-> Some(MsgQuotaCapital)])
  /\ trace[1].sleeps = 1

\* C9: the sleep after the failed attempt with 0-based index a lasts at
\* least baseDelay * 2^a and less than baseDelay * 2^a + 400; with the
\* defaults the lower bounds are 1800, 3600, 7200, 14400 and there are at
\* most four sleeps.
DefaultLowerBounds == <<1800, 3600, 7200, 14400>>

C9_BackoffDelay ==
  \A c \in Chains :
    pc[c] = "sleep" =>
      LET a == trace[c].sleeps - 1 IN
        /\ delay[c] >= DefaultBaseDelayMs * (2 ^ a)
        /\ delay[c] < DefaultBaseDelayMs * (2 ^ a) + 400
        /\ a < Len(DefaultLowerBounds) =>
             /\ delay[c] >= DefaultLowerBounds[a + 1]
             /\ delay[c] < DefaultLowerBounds[a + 1] + 400
        /\ maxRetries[c] = 4 => a < Len(DefaultLowerBounds)

C9_Witness ==
  /\ pc[1] = "sleep"
  /\ maxRetries[1] = 4
  /\ trace[1].sleeps = 4
  /\ delay[1] = 14400 + 399

\* ------------------------------------------------------------------------
\* Properties of researchLegalPrecedent (checked under Spec)
\* ------------------------------------------------------------------------
\* C10: once either withRetry invocation of a research call has rejected,
\* the research call has failed with the one fixed error and no report,
\* whatever error the invocation rejected with.
C10_ResearchFailure ==
  (research # "idle" /\ \E c \in Chains : pc[c] = "rejected") =>
    /\ research = "failed"
    /\ report = None
    /\ researchError =
         Some([status |-> None, code |-> None,
               message |-> Some(ResearchFailedMessage)])

C10_Witness ==
  /\ research = "failed"
  /\ pc[2] = "rejected"
  /\ thrown[2] = Some(EQuota)
  /\ pc[1] = "fulfilled"

\* C11 as stated: the research call delivers its outcome, report or failure,
\* only when both invocations have finished.
C11_WaitsForBoth ==
  research \in {"returned", "failed"} =>
    \A c \in Chains : pc[c] \in {"fulfilled", "rejected"}

\* C11 amended: the report is delivered only when both invocations have
\* fulfilled; the failure is delivered as soon as one invocation has
\* rejected, whether or not the other is still pending, and only then.
C11_ReportWaitsFailureDoesNot ==
  /\ research = "returned" => \A c \in Chains : pc[c] = "fulfilled"
  /\ research = "failed" => \E c \in Chains : pc[c] = "rejected"
  /\ (research # "idle" /\ \E c \in Chains : pc[c] = "rejected") =>
       research = "failed"
  /\ (research # "idle" /\ \A c \in Chains : pc[c] = "fulfilled") =>
       research = "returned"

C11_Witness ==
  /\ research = "failed"
  /\ pc[2] = "rejected"
  /\ pc[1] = "sleep"
  /\ settleOrder = <<2>>

\* C12: the research call starts both invocations in one step, before
\* either has completed, and afterwards every step changes the retry state
\* of at most one invocation: what one chain does never touches the attempt
\* counter, error, delay, pending operation or trace of the other.
ChainState(c) ==
  <<pc[c], maxRetries[c], hasFallback[c], attempt[c], lastError[c], delay[c],
    returned[c], thrown[c], inFlight[c], trace[c]>>

C12_IndependentChains ==
  [][/\ (research = "idle" /\ research' # "idle") =>
          \A c \in Chains : /\ pc'[c] = "operation"
                            /\ inFlight'[c] = {"operation"}
                            /\ trace'[c].primary = 1
                            /\ trace'[c].history = <<>>
     /\ research # "idle" =>
          \A c, d \in Chains :
            (c # d /\ ChainState(c)' # ChainState(c)) =>
              ChainState(d)' = ChainState(d)]_vars

C12_Witness ==
  /\ research = "awaiting"
  /\ pc[1] = "sleep"
  /\ trace[1].sleeps = 1
  /\ pc[2] = "operation"
  /\ trace[2].primary = 3

\* C13 as stated: for either role, an invocation that rejected has attempted
\* a fallback first.
C13_BothRolesHaveFallback ==
  \A c \in Chains :
    (research # "idle" /\ pc[c] = "rejected") => trace[c].fallback = 1

\* C13 amended: only the case-law call has a fallback, attempted once before
\* that call rejects; the statute call has none, it rejects with its last
\* primary error without any fallback attempt.
C13_OnlyCaseLawHasFallback ==
  research # "idle" =>
    /\ hasFallback[1]
    /\ ~hasFallback[2]
    /\ pc[1] = "rejected" =>
         (trace[1].fallback = 1 /\ trace[1].fallbackError # None)
    /\ trace[2].fallback = 0
    /\ pc[2] = "rejected" => thrown[2] = trace[2].primaryError

C13_Witness ==
  /\ research = "failed"
  /\ pc[2] = "rejected"
  /\ trace[2].fallback = 0
  /\ History(2) = <<"permanent">>
  /\ pc[1] = "rejected"
  /\ trace[1].fallback = 1

\* the responses the two invocations of a returned research call resolved with
CaseRes == The(returned[1])
StatuteRes == The(returned[2])

\* the URIs of the grounding references of a response, in order, keeping
\* only the references that carry a non-empty URI
RefUris(res) ==
  LET chunks == IF res.groundingChunks = None THEN <<>>
                ELSE The(res.groundingChunks)
      carries(ch) == /\ ch.web # None
                     /\ The(ch.web).uri # None
                     /\ The(The(ch.web).uri) # <<>>
      kept == SelectSeq(chunks, carries)
  IN  [i \in 1..Len(kept) |-> The(The(kept[i].web).uri)]

Range(f) == {f[i] : i \in DOMAIN f}

\* C14: the returned sources carry exactly the distinct non-empty URIs of
\* the grounding references of both responses, each once.
C14_SourcesAreDistinctUris ==
  research = "returned" =>
    LET sources == The(report).sources
        uris == Range(RefUris(CaseRes)) \cup Range(RefUris(StatuteRes))
    IN  /\ {sources[i].uri : i \in 1..Len(sources)} = uris
        /\ Len(sources) = Cardinality(uris)
        /\ \A i \in 1..Len(sources) : sources[i].uri # <<>>

C14_Witness ==
  /\ research = "returned"
  /\ CaseRes = RespA
  /\ StatuteRes = RespB
  /\ Len(The(report).sources) = 2

\* C15: the returned sources are ordered by the first occurrence of their
\* URI in the role-1 references followed by the role-2 references.
FirstIndex(seq, x) ==
  CHOOSE i \in 1..Len(seq) : seq[i] = x /\ \A j \in 1..(i - 1) : seq[j] # x

C15_FirstSeenOrder ==
  research = "returned" =>
    LET sources == The(report).sources
        scan == RefUris(CaseRes) \o RefUris(StatuteRes)
    IN  \A i, j \in 1..Len(sources) :
          i < j => /\ sources[i].uri \in Range(scan)
                   /\ sources[j].uri \in Range(scan)
                   /\ FirstIndex(scan, sources[i].uri)
                        < FirstIndex(scan, sources[j].uri)

C15_Witness ==
  /\ research = "returned"
  /\ CaseRes = RespA
  /\ StatuteRes = RespB
  /\ The(report).sources[1].uri = <<"u", "1">>
  /\ The(report).sources[2].uri = <<"u", "2">>

\* C16: the report text carries, on lines of their own, the first role's
\* trimmed text and after it the second role's trimmed text, each replaced by
\* its placeholder when the text is absent, empty or whitespace only, and it
\* ends with the count of the returned sources.
Trimmed(str) ==
  LET solid == {i \in 1..Len(str) : str[i] \notin {" ", "\t", "\n"}}
      lo == CHOOSE i \in solid : \A k \in solid : i <= k
      hi == CHOOSE i \in solid : \A k \in solid : k <= i
  IN  IF solid = {} THEN <<>> ELSE SubSeq(str, lo, hi)

Shown(res, placeholder) ==
  IF res.text = None \/ Trimmed(The(res.text)) = <<>>
  THEN placeholder
  ELSE Trimmed(The(res.text))

LineAt(text, i, line) ==
  /\ i + Len(line) + 1 <= Len(text)
  /\ SubSeq(text, i, i + Len(line) + 1) = <<"\n">> \o line \o <<"\n">>

CountLine(n) == SourcesPrefix \o <<DigitChars[n + 1]>> \o SourcesSuffix

C16_ReportText ==
  research = "returned" =>
    LET text == The(report).text
        first == Shown(CaseRes, NoCaseLaw)
        second == Shown(StatuteRes, NoStatutes)
        tail == CountLine(Len(The(report).sources))
    IN  /\ \E i \in 1..Len(text) :
             /\ LineAt(text, i, first)
             /\ \E j \in (i + Len(first) + 1)..Len(text) :
                  LineAt(text, j, second)
        /\ Len(text) > Len(tail)
        /\ SubSeq(text, Len(text) - Len(tail), Len(text)) = <<"\n">> \o tail

C16_Witness ==
  /\ research = "returned"
  /\ CaseRes = RespA
  /\ StatuteRes = RespBlank
  /\ Len(The(report).sources) = 1

\* C17: when the research call has returned its report, the listener has
\* already received the usage of both responses.
C17_UsageBeforeReturn ==
  research = "returned" =>
    totalTokens = usageTotal(CaseRes) + usageTotal(StatuteRes)

C17_Witness ==
  /\ research = "returned"
  /\ CaseRes = RespA
  /\ StatuteRes = RespB
  /\ trace[1].fallback = 1
  /\ totalTokens = 12

\* C18: the report depends on which response belongs to which role only:
\* whichever invocation settled first, text and sources are those computed
\* from the case-law response followed by the statute response.
C18_ArrivalOrderIrrelevant ==
  research = "returned" =>
    /\ Len(settleOrder) = 2
    /\ report = Some(researchReport(CaseRes, StatuteRes))

C18_Witness ==
  /\ research = "returned"
  /\ settleOrder = <<2, 1>>
  /\ CaseRes = RespA
  /\ StatuteRes = RespB
  /\ The(report).sources[1].uri = <<"u", "1">>

\* ------------------------------------------------------------------------
\* Properties of the chat (checked under SpecChat)
\* ------------------------------------------------------------------------
\* the messages of the errors a chat model call can raise
RawErrorTexts ==
  {The(e.message) : e \in {x \in ChatErrors \cup {GenericError} : x.message # None}}

\* the transcript is the turns handed over as history followed by the user
\* turn of the latest send and by one more turn
GrownByTwo(msgs, call) ==
  /\ Len(msgs) = Len(call.history) + 2
  /\ \A i \in 1..Len(call.history) :
       /\ msgs[i].role = call.history[i].role
       /\ <<[text |-> msgs[i].text]>> = call.history[i].parts
  /\ msgs[Len(msgs) - 1] = [role |-> "user", text |-> call.message]
  /\ msgs[Len(msgs)].role = "model"

\* C19: in the step in which the chat call fails for good (retries and
\* fallback exhausted), the send ends with the fixed apology as assistant
\* turn: the transcript is the previous turns, the user turn and the apology,
\* and no turn ever carries the message of an error.
C19_ApologyOnFailure ==
  [][/\ \A i \in 1..Len(messages') : messages'[i].text \notin RawErrorTexts
     /\ (pc[1] # "rejected" /\ pc'[1] = "rejected") =>
          /\ thinking /\ ~thinking'
          /\ chatCall' # None
          /\ GrownByTwo(messages', The(chatCall'))
          /\ messages'[Len(messages')].text = Apology
          /\ messages' = Append(messages, [role |-> "model", text |-> Apology])]_vars

C19_Witness ==
  /\ ~thinking
  /\ pc[1] = "rejected"
  /\ trace[1].primary = DefaultMaxRetries + 1
  /\ trace[1].fallback = 1
  /\ thrown[1] = Some(E429)
  /\ Len(messages) = 3
  /\ messages[3].text = Apology

\* C20: in the step in which the chat call succeeds, the trimmed text of
\* the response (the fixed "No response received." when it has no text) is
\* appended as assistant turn after the user turn, the transcript has grown
\* by two turns, and the usage of that response has reached the listener.
C20_ReplyOnSuccess ==
  [][(pc[1] # "fulfilled" /\ pc'[1] = "fulfilled") =>
       /\ thinking /\ ~thinking'
       /\ chatCall' # None
       /\ chatResponse' # None
       /\ GrownByTwo(messages', The(chatCall'))
       /\ LET r == The(chatResponse')
              said == IF r.text = None THEN NoResponseReceived
                      ELSE Trimmed(The(r.text))
          IN  /\ messages' = Append(messages, [role |-> "model", text |-> said])
              /\ totalTokens' = totalTokens + usageTotal(r)]_vars

C20_Witness ==
  /\ ~thinking
  /\ pc[1] = "fulfilled"
  /\ trace[1].fallback = 1
  /\ chatResponse = Some(RespA)
  /\ Len(messages) = 3
  /\ messages[2] = [role |-> "user", text |-> <<" ", "q", " ">>]
  /\ messages[3] = [role |-> "model", text |-> <<"A", "1">>]
  /\ totalTokens = 7


\* ------------------------------------------------------------------------
\* Properties of the chat session (checked under SpecChat)
\* ------------------------------------------------------------------------
Turns(msgs, role) == Cardinality({i \in 1..Len(msgs) : msgs[i].role = role})
\* the sends whose assistant turn (reply or apology) is still to come; the
\* transcript starts with the greeting, an assistant turn no send produced
PendingSends(msgs) == Turns(msgs, "user") - (Turns(msgs, "model") - 1)
ChatPending == pc[1] \in {"operation", "sleep", "fallback"}
EndsWith(str, suffix) ==
  /\ Len(suffix) <= Len(str)
  /\ SubSeq(str, Len(str) - Len(suffix) + 1, Len(str)) = suffix

\* C21: at most one send is in flight at any time: thinking is true exactly
\* while the chat call of the one unanswered user turn is pending, the input
\* field and the Send button are then disabled, and while thinking no step
\* changes the input, starts a send or replaces the call.
C21_OneSendInFlight ==
  [][/\ PendingSends(messages') <= 1
     /\ thinking' <=> PendingSends(messages') = 1
     /\ thinking' <=> ChatPending'
     /\ thinking' => inputDisabled' /\ sendDisabled'
     /\ thinking => /\ input' = input
                    /\ Turns(messages', "user") = Turns(messages, "user")
                    /\ chatCall' = chatCall]_vars

C21_Witness ==
  /\ thinking
  /\ pc[1] = "sleep"
  /\ Len(messages) = 4
  /\ messages[2].role = "user"
  /\ messages[4].role = "user"
  /\ input = <<>>

\* C22: the transcript is append-only: in every step, whether a send starts,
\* succeeds or fails, the turns that were there stay, unchanged and in the
\* same order, and new turns are added at the end only.
C22_AppendOnly ==
  [][/\ Len(messages') >= Len(messages)
     /\ SubSeq(messages', 1, Len(messages)) = messages]_vars

C22_Witness ==
  /\ ~thinking
  /\ Len(messages) = 5
  /\ messages[1].text = Greeting
  /\ messages[3].text = Apology
  /\ messages[5].text # Apology

\* C23: in the step that starts a send, the history handed to the model call
\* is exactly the turns that were in the transcript before the new user turn,
\* in order; the new user text is the payload (its end, after the context
\* block, or all of it without documents) and is not a turn of that history.
C23_HistoryIsPriorTurns ==
  [][Turns(messages', "user") > Turns(messages, "user") =>
       /\ chatCall' # None
       /\ LET call == The(chatCall')
          IN  /\ call.message = input
              /\ messages' = Append(messages, [role |-> "user", text |-> call.message])
              /\ Len(call.history) = Len(messages)
              /\ \A i \in 1..Len(messages) :
                   call.history[i] =
                     [role |-> messages[i].role,
                      parts |-> <<[text |-> messages[i].text]>>]
              /\ EndsWith(call.fullMessage, call.message)
              /\ files = <<>> => call.fullMessage = call.message]_vars

C23_Witness ==
  /\ thinking
  /\ chatCall # None
  /\ Len(The(chatCall).history) = 3
  /\ The(chatCall).history[2].role = "user"
  /\ The(chatCall).history[3].role = "model"
  /\ Len(messages) = 4

\* C24: the context block of the case files is part of the payload of the
\* current turn only: no turn of the transcript and no turn of the history
\* handed to a model call contains it, while with case files every payload
\* does.
HasContextBlock(text) ==
  includes(text, CaseFilesOpen) \/ includes(text, CaseDataPrefix)

C24_NoContextInHistory ==
  /\ \A i \in 1..Len(messages) : ~HasContextBlock(messages[i].text)
  /\ chatCall # None =>
       LET call == The(chatCall)
       IN  /\ \A i \in 1..Len(call.history) :
                \A j \in 1..Len(call.history[i].parts) :
                  ~HasContextBlock(call.history[i].parts[j].text)
           /\ files # <<>> <=> HasContextBlock(call.fullMessage)

C24_Witness ==
  /\ files # <<>>
  /\ thinking
  /\ chatCall # None
  /\ Len(The(chatCall).history) = 3
  /\ HasContextBlock(The(chatCall).fullMessage)


\* ------------------------------------------------------------------------
\* Properties of usage recording (checked under SpecUsage)
\* ------------------------------------------------------------------------
\* the step is a call of trackUsage
Recorded == usageLog'.records = usageLog.records + 1
\* the usageMetadata trackUsage was called with in this step
RecordedReport == The(usageLog'.last)
\* total if present, else prompt, else candidates, else zero
ReportedCount(u) ==
  IF u = None THEN 0
  ELSE IF The(u).totalTokenCount # None THEN The(The(u).totalTokenCount)
  ELSE IF The(u).promptTokenCount # None THEN The(The(u).promptTokenCount)
  ELSE IF The(u).candidatesTokenCount # None THEN The(The(u).candidatesTokenCount)
  ELSE 0
\* in this step listener l was called once, with n, and no other listener
CalledWith(l, n) ==
  /\ usageLog'.calls = [usageLog.calls EXCEPT ![l] = @ + 1]
  /\ usageLog'.sum = [usageLog.sum EXCEPT ![l] = @ + n]
  /\ totalTokens' = totalTokens + (IF l = "App" THEN n ELSE 0)
\* in this step no listener was called
NoListenerCalled ==
  /\ usageLog'.calls = usageLog.calls
  /\ usageLog'.sum = usageLog.sum
  /\ totalTokens' = totalTokens

\* C25: a usage record takes the total count if present, else the prompt
\* count, else the candidates count, else zero; the registered listener is
\* called, once and with that count, exactly when a listener is registered
\* and the count is positive; otherwise the record changes nothing (no call
\* for a response without usage fields in particular).
C25_RepresentativeCount ==
  [][Recorded =>
       /\ tokenListener' = tokenListener
       /\ IF tokenListener # None /\ ReportedCount(RecordedReport) > 0
          THEN CalledWith(The(tokenListener), ReportedCount(RecordedReport))
          ELSE NoListenerCalled]_vars

C25_Witness ==
  /\ tokenListener = Some("App")
  /\ usageLog.records = 3
  /\ usageLog.last = Some(Some(Usage(None, None, Some(3))))
  /\ usageLog.calls["App"] = 2
  /\ usageLog.sum["App"] = 8
  /\ totalTokens = 8


\* C26: a record of the usage report { totalTokenCount: 0,
\* promptTokenCount: 5 } calls the registered listener with 5: a total
\* count takes priority over the other counts only when it is positive.
ZeroTotalReport == Some(Usage(Some(0), Some(5), None))

C26_ZeroTotalYieldsPrompt ==
  [][(Recorded /\ tokenListener # None /\ RecordedReport = ZeroTotalReport) =>
       CalledWith(The(tokenListener), 5)]_vars

\* C27: one listener is kept: the registered listener is the one of the
\* latest setTokenListener call, and a usage record calls no listener but
\* that one, so after A and then B were registered no record reaches A.
C27_LatestListenerOnly ==
  [][/\ tokenListener' = usageLog'.requested
     /\ Cardinality(tokenListener') <= 1
     /\ Recorded =>
          \A l \in Listeners :
            Some(l) # usageLog.requested =>
              /\ usageLog'.calls[l] = usageLog.calls[l]
              /\ usageLog'.sum[l] = usageLog.sum[l]]_vars

C27_Witness ==
  /\ tokenListener = Some("Other")
  /\ usageLog.records = 2
  /\ usageLog.calls["App"] = 1
  /\ usageLog.sum["App"] = 7
  /\ usageLog.calls["Other"] = 1
  /\ usageLog.sum["Other"] = 5
  /\ totalTokens = 7

\* C29: the total kept by App is the sum of the counts its listener has been
\* called with, and no step makes it smaller, in whatever order the calls
\* record their usage.
C29_TotalIsSumOfCounts ==
  [][/\ totalTokens' = usageLog'.sum["App"]
     /\ totalTokens' >= totalTokens
     /\ Recorded /\ tokenListener = Some("App") =>
          totalTokens' = totalTokens + ReportedCount(RecordedReport)]_vars

C29_Witness ==
  /\ tokenListener = Some("App")
  /\ usageLog.records = 3
  /\ usageLog.calls["App"] = 3
  /\ usageLog.sum["App"] = 15
  /\ totalTokens = 15


\* ------------------------------------------------------------------------
\* Properties of the calls of the three views (checked under SpecCalls)
\* ------------------------------------------------------------------------
\* the invocation that resolved with the response of a model call in this
\* step, if any
Arrived == {c \in Chains : pc[c] # "fulfilled" /\ pc'[c] = "fulfilled"}
\* that response: a chat call resolves with the text, the response itself
\* is chatResponse
ArrivedResponse(c) ==
  IF chatCall' # None THEN The(chatResponse') ELSE The(returned'[c])

\* C28: usage is recorded once per model call that returned a response, in
\* research, drafting and chat: a step in which a response arrives records
\* the usage of that response once (the listener receives its count when it
\* is positive), and a step in which an attempt fails, a backoff ends or a
\* call starts records nothing, also after retries, with the fallback, and
\* after the research call as a whole has failed.
C28_UsageOncePerResponse ==
  [][IF Arrived # {}
     THEN /\ Cardinality(Arrived) = 1
          /\ Recorded
          /\ \A c \in Arrived :
               LET r == ArrivedResponse(c)
               IN  /\ RecordedReport = r.usageMetadata
                   /\ IF ReportedCount(r.usageMetadata) > 0
                      THEN CalledWith("App", ReportedCount(r.usageMetadata))
                      ELSE NoListenerCalled
     ELSE /\ usageLog'.records = usageLog.records
          /\ NoListenerCalled]_vars

C28_Witness ==
  /\ research = "failed"
  /\ pc[2] = "rejected"
  /\ pc[1] = "fulfilled"
  /\ trace[1].primary = DefaultMaxRetries + 1
  /\ trace[1].fallback = 1
  /\ usageLog.records = 1
  /\ usageLog.calls["App"] = 1
  /\ totalTokens = 7

\* C30: formatCaseFiles of no files is the empty string and the callers
\* then leave the context out: without files the drafting prompt is the
\* request and the instructions with no case-context section, and the chat
\* payload is the user text itself; with files both carry the block. No
\* payload holds the wrapper tags with nothing between them.
EmptyWrapper == CaseFilesOpen \o CaseFilesClose

C30_NoContextWithoutFiles ==
  /\ files = <<>> => formatCaseFiles(files) = <<>>
  /\ chatCall # None =>
       LET call == The(chatCall)
       IN  /\ ~includes(call.fullMessage, EmptyWrapper)
           /\ IF files = <<>>
              THEN call.fullMessage = call.message
              ELSE HasContextBlock(call.fullMessage)
  /\ draftCall # None =>
       LET call == The(draftCall)
       IN  /\ ~includes(call.prompt, EmptyWrapper)
           /\ IF files = <<>>
              THEN /\ call.prompt =
                        DraftIntro \o call.topic \o BlankLine
                          \o InstructionsPrefix \o call.userInstructions
                   /\ ~includes(call.prompt, CaseContextPrefix)
                   /\ ~includes(call.prompt, CaseFilesOpen)
                   /\ ~includes(call.prompt, CaseFilesClose)
              ELSE /\ includes(call.prompt, CaseContextPrefix \o CaseFilesOpen)
                   /\ EndsWith(call.prompt, CaseFilesClose)

C30_Witness ==
  /\ files = <<>>
  /\ draftCall # None
  /\ draftLoading
  /\ The(draftCall).topic = <<"T">>
  /\ Len(The(draftCall).prompt) =
       Len(DraftIntro) + 1 + Len(BlankLine) + Len(InstructionsPrefix) + 1


\* ------------------------------------------------------------------------
\* Further properties of withRetry (SpecRetry), of the merged sources (Spec)
\* and of the transcript (SpecChat)
\* ------------------------------------------------------------------------
\* C33: withRetry sleeps between two primary attempts only: once an
\* invocation is past a sleep the number of its sleeps is the number of its
\* primary attempts minus one (during a sleep, which always leads to a
\* further primary attempt, the two are equal), so no sleep follows the last
\* primary attempt and none precedes the fallback or the throw.
C33_SleepsBetweenAttempts ==
  [][/\ pc'[1] = "sleep" =>
          /\ trace'[1].sleeps = trace'[1].primary
          /\ attempt'[1] < maxRetries'[1]
     /\ pc'[1] \in {"operation", "fallback", "fulfilled", "rejected"} =>
          trace'[1].sleeps = trace'[1].primary - 1
     /\ pc[1] = "sleep" =>
          /\ pc'[1] = "operation"
          /\ trace'[1].primary = trace[1].primary + 1
     /\ pc'[1] = "fallback" /\ pc[1] # "fallback" => pc[1] = "operation"]_vars

C33_Witness ==
  /\ pc[1] = "rejected"
  /\ maxRetries[1] = 3
  /\ trace[1].primary = 4
  /\ trace[1].sleeps = 3
  /\ trace[1].fallback = 1

\* the grounding references of a response that carry a non-empty URI, in
\* order, with their optional titles
Refs(res) ==
  LET chunks == IF res.groundingChunks = None THEN <<>>
                ELSE The(res.groundingChunks)
      carries(ch) == /\ ch.web # None
                     /\ The(ch.web).uri # None
                     /\ The(The(ch.web).uri) # <<>>
      kept == SelectSeq(chunks, carries)
  IN  [i \in 1..Len(kept) |->
         [uri |-> The(The(kept[i].web).uri), title |-> The(kept[i].web).title]]
LastIndex(seq, x) ==
  CHOOSE i \in 1..Len(seq) : seq[i] = x /\ \A j \in (i + 1)..Len(seq) : seq[j] # x

\* C34: when a URI is reported more than once, its one merged entry stands
\* where the URI first occurred in the role-1 references followed by the
\* role-2 references, and carries the title of its last occurrence there
\* ("Untitled source" when that one has none): a role-2 title replaces a
\* role-1 title of the same URI.
C34_LastTitleFirstPosition ==
  research = "returned" =>
    LET sources == The(report).sources
        scan == Refs(CaseRes) \o Refs(StatuteRes)
        uris == [i \in 1..Len(scan) |-> scan[i].uri]
    IN  \A i \in 1..Len(sources) :
          LET u == sources[i].uri
              last == scan[LastIndex(uris, u)]
          IN  /\ u \in Range(uris)
              /\ i = 1 + Cardinality({uris[k] : k \in 1..(FirstIndex(uris, u) - 1)})
              /\ sources[i].title =
                   IF last.title = None THEN UntitledSource ELSE The(last.title)

C34_Witness ==
  /\ research = "returned"
  /\ CaseRes = RespA
  /\ StatuteRes = RespB
  /\ The(report).sources[1] = [uri |-> <<"u", "1">>, title |-> <<"Y">>]
  /\ The(report).sources[2].uri = <<"u", "2">>

\* C36: the transcript alternates: it starts with the greeting of the
\* assistant, every second turn is a user turn and the turns between are
\* assistant turns, and when no send is pending its last turn is an
\* assistant turn.
C36_Alternation ==
  /\ messages[1] = [role |-> "model", text |-> Greeting]
  /\ \A i \in 1..Len(messages) :
       messages[i].role = IF i % 2 = 1 THEN "model" ELSE "user"
  /\ ~thinking => messages[Len(messages)].role = "model"
  /\ thinking => messages[Len(messages)].role = "user"

C36_Witness ==
  /\ ~thinking
  /\ Len(messages) = 5
  /\ messages[3].text = Apology
  /\ messages[5].text = <<"A", "1">>


\* ------------------------------------------------------------------------
\* Properties of formatCaseFiles (checked under SpecFormat)
\* ------------------------------------------------------------------------
Blank(ch) == ch \in {" ", "\t", "\n"}
\* str without the blanks before its first and after its last other character
Stripped(str) ==
  IF \A i \in 1..Len(str) : Blank(str[i]) THEN <<>>
  ELSE LET lo == CHOOSE i \in 1..Len(str) :
                   ~Blank(str[i]) /\ \A j \in 1..(i - 1) : Blank(str[j])
           back(k) == str[Len(str) + 1 - k]
           cut == CHOOSE k \in 1..Len(str) :
                    ~Blank(back(k)) /\ \A j \in 1..(k - 1) : Blank(back(j))
       IN  SubSeq(str, lo, Len(str) + 1 - cut)
\* the decimal digits of n
RECURSIVE Decimal(_)
Decimal(n) ==
  LET digit == SubSeq(<<"0", "1", "2", "3", "4", "5", "6", "7", "8", "9">>,
                      (n % 10) + 1, (n % 10) + 1)
  IN  IF n < 10 THEN digit ELSE Decimal(n \div 10) \o digit
\* the content shown for a file: at most 14000 characters of it
ShownContent(f) ==
  LET stripped == Stripped(f.content)
  IN  IF Len(stripped) > 14000 THEN SubSeq(stripped, 1, 14000) ELSE stripped
\* the block of a file: the header with the length of the whole content,
\* the content shown, the end line
BlockOf(f) ==
  FileOpen \o f.name \o FileLengthOpen \o Decimal(Len(f.content))
    \o FileLengthClose \o ShownContent(f) \o FileEnd

\* C31: in the text formatCaseFiles returns, the block of every file shows
\* at most 14000 characters of its content and its header reports the length
\* of the whole content, also when the content is longer than 14000
\* characters.
C31_TruncatedContentOriginalLength ==
  formatted # None =>
    /\ \A i \in 1..Len(files) : Len(ShownContent(files[i])) <= 14000
    /\ The(formatted) =
         CaseFilesOpen
           \o (IF Len(files) = 1 THEN BlockOf(files[1])
               ELSE BlockOf(files[1]) \o BlankLine \o BlockOf(files[2]))
           \o CaseFilesClose

C31_Witness ==
  /\ formatted # None
  /\ Len(files) = 2
  /\ Len(files[2].content) = 14009
  /\ Len(The(formatted)) =
       Len(CaseFilesOpen) + Len(BlockOf(FileA)) + Len(BlankLine)
         + Len(FileOpen) + 1 + Len(FileLengthOpen) + 5 + Len(FileLengthClose)
         + 14000 + Len(FileEnd) + Len(CaseFilesClose)


\* ------------------------------------------------------------------------
\* Properties of the document store (checked under SpecFiles)
\* ------------------------------------------------------------------------
\* C38: whatever the order of uploads and deletes, every file whose upload
\* has completed and whose id has not been deleted is in the list of files,
\* and no file whose id has been deleted is in it: a later upload or delete
\* discards no earlier change.
C38_StoreKeepsChanges ==
  /\ \A f \in storeLog.completed :
       f.id \notin storeLog.deleted => f \in Range(files)
  /\ \A i \in 1..Len(files) : files[i].id \notin storeLog.deleted


\* ------------------------------------------------------------------------
\* Properties of the research view (checked under SpecView)
\* ------------------------------------------------------------------------
\* C37: loading is true whenever at least one research call started from
\* the view is still pending.
C37_LoadingWhilePending ==
  (\E k \in ViewCalls : calls[k].state = "pending") => loading


\* C32: a research call started while an earlier one is pending cancels
\* nothing: the step that starts it leaves the earlier call and the retry
\* state of its two invocations as they were, an invocation in progress only
\* ever leaves that state by returning or throwing, and every call started
\* has its outcome delivered to handleResearch as soon as its Promise.all
\* settles: the report (shown as the result) once both its invocations have
\* returned, the failure (shown as an alert) once one of them has thrown.
InProgress(c) == pc[c] \in {"operation", "sleep", "fallback"}

C32_NoCancellation ==
  [][/\ \A k \in ViewCalls :
          (calls[k].state = "none" /\ calls'[k].state = "pending") =>
            \A j \in ViewCalls \ {k} :
              /\ calls'[j] = calls[j]
              /\ \A c \in chainsOf(j) : ChainState(c)' = ChainState(c)
     /\ \A c \in ViewChains :
          InProgress(c) => (InProgress(c)' \/ pc'[c] \in {"fulfilled", "rejected"})
     /\ \A k \in ViewCalls :
          /\ (\A c \in chainsOf(k) : pc'[c] = "fulfilled") =>
               /\ calls'[k].state = "returned"
               /\ calls'[k].shown = "result"
               /\ calls'[k].report =
                    Some(researchReport(The(returned'[caseLawChain(k)]),
                                        The(returned'[statuteChain(k)])))
               /\ calls[k].state = "pending" => result' = calls'[k].report
          /\ (\E c \in chainsOf(k) : pc'[c] = "rejected") =>
               /\ calls'[k].state = "failed"
               /\ calls'[k].shown = "alert"
               /\ calls'[k].error = Some(ResearchFailed)]_vars

\* the second call has delivered its report while the first, started before
\* it, is still retrying
C32_Witness ==
  /\ calls[1].state = "pending"
  /\ \E c \in chainsOf(1) : pc[c] = "operation" /\ trace[c].primary = 2
  /\ calls[2].state = "returned"
  /\ calls[2].shown = "result"
  /\ result = calls[2].report


\* ------------------------------------------------------------------------
\* Termination (checked under FairCalls)
\* ------------------------------------------------------------------------
\* C35: when every model call is eventually settled and every backoff
\* eventually elapses, every withRetry invocation that is running eventually
\* returns or throws, and every research call that is awaited, every chat
\* send and every drafting call eventually completes.
C35_Termination ==
  /\ \A c \in Chains :
       (pc[c] \in {"operation", "sleep", "fallback"})
         ~> (pc[c] \in {"fulfilled", "rejected"})
  /\ (research = "awaiting") ~> (research \in {"returned", "failed"})
  /\ thinking ~> ~thinking
  /\ draftLoading ~> ~draftLoading

\* a research call has completed after its case-law invocation used every
\* retry and then the fallback, and its statute invocation slept as well
C35_Witness ==
  /\ research = "returned"
  /\ trace[1].sleeps = DefaultMaxRetries
  /\ trace[1].fallback = 1
  /\ trace[2].sleeps >= 1
  /\ \A c \in Chains : pc[c] = "fulfilled"

====
